---- MODULE Spec2Model ----
(***************************************************************************)
(* Model of the OAuth2/PKCE negotiation in neuromation/cli/login.py:       *)
(* AuthCode (a one-shot asyncio.Future), the callback handler, the         *)
(* ephemeral callback server (create_app_server / create_app_server_once), *)
(* AuthToken, AuthTokenClient and AuthNegotiator.refresh_token.            *)
(*                                                                         *)
(* One step of the model is the code that runs between two suspension      *)
(* points of the coroutine (an await that really yields to the event       *)
(* loop), or one environment event: a callback request served by the       *)
(* aiohttp server, a tick of the wall clock, a token-endpoint response.    *)
(* An optional value (Optional[T]) is a sequence of length 0 or 1.         *)
(***************************************************************************)
EXTENDS Integers, Sequences, FiniteSets, TLC

\* ------------------------------------------------------------------ bounds
NumPorts == 2       \* length of AuthConfig.callback_urls in the model
MaxCalls == 2       \* calls of refresh_token made by the caller
MaxTime == 1        \* the clock is ticked one second at a time up to here
MaxItems == 3       \* chunks or frames a server sends on one stream

MaxTasks == 1       \* tasks main leaves pending on the loop
MaxWaiters == 2     \* calls of add_child_handler
MaxIds == 2         \* arguments given to one command of the CLI

\* ------------------------------------------------------- program constants
timeout_s == 60         \* AuthCode.wait(timeout_s=60.0)
BasePort == 54540       \* first of AuthConfig.callback_urls
RatioNum == 3           \* expiration_ratio = 0.75 = RatioNum / RatioDen
RatioDen == 4

VARIABLES
    now,            \* int(time.time())
    redirect_url,   \* AuthConfig.success_redirect_url (Optional)
    curToken,       \* the token the caller holds (Optional[AuthToken])
    calls,          \* number of refresh_token calls started; the current call's id
    pc,             \* where the current refresh_token call is suspended
    argToken,       \* the token argument of the current call
    callTime,       \* the clock when the current call was entered
    session,        \* AuthTokenClient._client: "none", "open", "closed"
    future,         \* per call: AuthCode._future [state, value]
    callback_url,   \* per call: AuthCode._callback_url (Optional port)
    portIdx,        \* create_app_server: index of the port being tried
    thrown,         \* create_app_server is handling an athrow() of the body's exception
    server,         \* per port: the call whose site listens there, 0 when none
    runners,        \* per call: AppRunners set up and not yet cleaned up
    tried,          \* create_app_server: the ports tried by the current call and
                    \* what became of each, in order
    waitDeadline,   \* the clock value at which the pending AuthCode.wait times out
    exiting,        \* how the `async with` body of get_code is being left
    result,         \* outcome of the current call
    trace,          \* I/O performed by the current call, in order
    response,       \* status of the response to the callback request served
                    \* last, until the negotiator runs again; 0 when none
    verifier,       \* AuthCode._verifier of the current call (Optional)
    challenge,      \* AuthCode._challenge of the current call (Optional)
    authorize_query,    \* query of the authorize URL the current call
                        \* dispatched (Optional)
    token_request,  \* JSON body of the POST the current call sent to the
                    \* token endpoint (Optional)
    token_response, \* the token endpoint's response to it (Optional)
    job_op,         \* the operation of the jobs client in progress: "", "monitor",
                    \* "top", "kill", "status", "submit" or "list"
    job_pc,         \* where its caller is: "idle", "streaming", "ended", "failed",
                    \* "cancelled"
    job_status,     \* the status the server answered the request with, 0 when none
    script,         \* what the server sends on the stream, in order
    written,        \* how many items of script the server has written
    closed,         \* the server has ended the response / closed the socket
    wire,           \* written and not yet read by the client
    yielded,        \* what the stream has yielded to its consumer, in order
    echoed,         \* what `neuro job monitor` has written to its output
    job_error,      \* the exception the operation ended with, "" when none
    conn,           \* the connection of the stream opened last: "none", "open",
                    \* "closed"
    api_args,       \* the arguments of the operation in progress
    api_request,    \* the request it sent (Optional)
    api_body,       \* the JSON body of the response (Optional)
    api_result,     \* the value it returned (Optional)
    run_pc,         \* where asyncio_utils.run is: "idle", "check", "check_coroutine",
                    \* "new_loop", "set_loop", "start", "running", "cleanup",
                    \* "asyncgens", "finally", "done"
    running_loop,   \* the loop running in the thread of run: "none", "outer" (the
                    \* loop run is called from) or "new" (the loop run creates)
    main,           \* the argument of run: [kind, value], kind "not_coroutine" or
                    \* "coroutine", then "returns" or "raises" with what
    loop,           \* the loop run creates: "none", "open", "closed"
    current_loop,   \* the thread's current loop: "unset", "outer", "new", "none"
    main_task,      \* the task of main: "none", "pending", "done", "cancelled"
    tasks,          \* the number of other tasks on the loop that are not done
    cancelled,      \* the number of tasks run has called cancel() on
    run_result,     \* what run returned (Optional)
    run_error,      \* the exception run is raising, "" when none
    cleanup_error,  \* the exception the cleanup of run raised, "" when none
    waiters,        \* the waiter threads of the child watcher, one per
                    \* add_child_handler: [pid, args, state, reaped, status,
                    \* returncode]
    threads,        \* ThreadedChildWatcher._threads: pid -> its thread (Optional)
    handed,         \* the calls each waiter handed to loop.call_soon_threadsafe
    direct,         \* the waiters that invoked their callback themselves
    cli_cmd,        \* the command of `neuro job` in progress: "", "kill", "list"
    cli_pc,         \* where it is: "idle", "client" (inside `async with
                    \* ctx.make_client()`), "done", "raised"
    cli_args,       \* its arguments: the ids of kill, the --status options of list
    cli_idx,        \* kill: the index in cli_args of the id tried next
    cli_errors,     \* kill: the list `errors`
    cli_log,        \* what the command did, in order: calls of client.jobs.kill
                    \* with their outcome, lines written to the output
    cli_statuses    \* list: the set `statuses` handed to format_jobs

vars == <<now, redirect_url, curToken, calls, pc, argToken, callTime,
          session, future, callback_url, portIdx, thrown, server, runners,
          tried, waitDeadline, exiting, result, trace, response,
          verifier, challenge, authorize_query, token_request, token_response,
          job_op, job_pc, job_status, script, written, closed, wire, yielded,
          echoed, job_error, conn, api_args, api_request, api_body, api_result,
          run_pc, running_loop, main, loop, current_loop, main_task, tasks, cancelled,
          run_result, run_error, cleanup_error, waiters, threads, handed, direct,
          cli_cmd, cli_pc, cli_args, cli_idx, cli_errors, cli_log, cli_statuses>>

\* what a request/response operation of the jobs client sets
apiVars == <<api_args, api_request, api_body, api_result>>

\* the state of the commands `neuro job kill` and `neuro job list`
cliVars == <<cli_cmd, cli_pc, cli_args, cli_idx, cli_errors, cli_log, cli_statuses>>

\* the state of the jobs client (Jobs.monitor, Jobs.top and their consumer,
\* Jobs.kill, Jobs.status, Jobs.submit, Jobs.list) and of the commands
jobVars == <<job_op, job_pc, job_status, script, written, closed, wire,
             yielded, echoed, job_error, conn, apiVars, cliVars>>

\* the state of ThreadedChildWatcher and its waiter threads
watcherVars == <<waiters, threads, handed, direct>>

\* the state of asyncio_utils.run, its loop and the child watcher
asyncVars == <<run_pc, running_loop, main, loop, current_loop, main_task, tasks,
               cancelled, run_result, run_error, cleanup_error, watcherVars>>

\* the state of the negotiation
loginVars == <<now, redirect_url, curToken, calls, pc, argToken, callTime,
               session, future, callback_url, portIdx, thrown, server, runners,
               tried, waitDeadline, exiting, result, trace, response,
               verifier, challenge, authorize_query, token_request,
               token_response>>

Calls == 1..MaxCalls
PortIdxs == 1..NumPorts

\* AuthConfig.callback_ports
callback_ports == [i \in PortIdxs |-> BasePort + (i - 1)]

\* the `code` query parameter of a callback request: absent, empty or a value
Queries == {<<>>, <<"">>, <<"c1">>, <<"c2">>}

\* what the token endpoint may answer with status 2xx
Payloads == [access_token : {"a1"}, expires_in : {2, 100}, refresh_token : {<<>>, <<"r1">>}]

\* the responses of the token endpoint: a 2xx response with its JSON payload,
\* or an error response
TokenResponses ==
    [status : {200}, payload : {<<r>> : r \in Payloads}]
        \cup [status : {403, 500}, payload : {<<>>}]

\* exceptions AuthCodeCallbackClient._request may raise
DispatchErrors == {"OSError:EADDRINUSE", "OSError:ECONNREFUSED", "webbrowser.Error"}

AuthError == "AuthException:failed to get an authorization code"
TokenError == "AuthException:failed to get an access token."
NoFreePorts == "RuntimeError:No free ports."
DidNotStop == "RuntimeError:generator didn't stop after athrow()"

NoFuture == [state |-> "none", value |-> ""]
NoResult == [ok |-> FALSE, token |-> <<>>, error |-> ""]

\* ------------------------------------------------------------------ PKCE
\* the values secrets.token_bytes(32) returns in the model
Secrets == {<<"s1">>, <<"s2">>}

\* hashlib.sha256(payload).digest(), str.encode() and the unpadded
\* base64url encoding are terms over their argument: a text or a byte string
\* is the sequence of the conversions that made it, equal only to what the
\* same conversions made from the same argument
sha256(payload) == <<"sha256">> \o payload

encode(text) == <<"bytes">> \o text

urlsafe_unpadded_b64encode(payload) == <<"b64url">> \o payload

generate_verifier(secret) == urlsafe_unpadded_b64encode(secret)

\* the challenge of the `plain` method: the verifier itself
generate_challenge_plain(v) == v

generate_challenge(v) == urlsafe_unpadded_b64encode(sha256(encode(v)))

\* the query of the authorize URL AuthCodeCallbackClient.request builds
authorize_url_query(chal, url) ==
    [response_type |-> "code",
     code_challenge |-> chal,
     code_challenge_method |-> "S256",
     redirect_uri |-> url,
     scope |-> "offline_access"]

\* a payload that names the first configured port, bound or not
request_payload_first_port(ver, value, url) ==
    [grant_type |-> "authorization_code",
     code_verifier |-> ver,
     code |-> value,
     redirect_uri |-> callback_ports[1]]

\* the JSON body AuthTokenClient.request posts
request_payload(ver, value, url) ==
    [grant_type |-> "authorization_code",
     code_verifier |-> ver,
     code |-> value,
     redirect_uri |-> url]

\* the JSON body AuthTokenClient.refresh posts
refresh_payload(tok) ==
    [grant_type |-> "refresh_token",
     refresh_token |-> tok.refresh_token]

\* -------------------------------------------------------------- AuthCode
\* set_value as it would be on a cell that can be assigned again
set_value_overwrite(f, v) ==
    [f |-> [state |-> "fulfilled", value |-> v], raised |-> FALSE]

\* set_value as it would be on a future that takes a result after a cancel
set_value_after_cancel(f, v) ==
    IF f.state = "fulfilled"
    THEN [f |-> f, raised |-> TRUE]
    ELSE [f |-> [state |-> "fulfilled", value |-> v], raised |-> FALSE]

\* asyncio.Future.set_result raises InvalidStateError unless the future is pending
set_value(f, v) ==
    IF f.state = "pending"
    THEN [f |-> [state |-> "fulfilled", value |-> v], raised |-> FALSE]
    ELSE [f |-> f, raised |-> TRUE]

\* cancel as it would be if the future were left alone
cancel_noop(f) == f

\* asyncio.Future.cancel is a no-op on a future that is done
cancel(f) == IF f.state = "pending" THEN [state |-> "cancelled", value |-> ""] ELSE f

\* -------------------------------------------------------------- AuthToken
\* is_expired with the comparison reversed
is_expired_reversed(tok, t) == tok.expiration_time >= t

\* is_expired with a strict comparison
is_expired_strict(tok, t) == tok.expiration_time < t

is_expired(tok, t) == tok.expiration_time <= t

\* create without the early-expiry margin
AuthToken_create_no_margin(token, expires_in, refresh_token, t) ==
    [token |-> token,
     expiration_time |-> t + expires_in,
     refresh_token |-> refresh_token]

\* int(time_factory()) + int(expires_in * expiration_ratio): int() truncates
AuthToken_create(token, expires_in, refresh_token, t) ==
    [token |-> token,
     expiration_time |-> t + ((expires_in * RatioNum) \div RatioDen),
     refresh_token |-> refresh_token]

InitTokens ==
    {AuthToken_create("t0", e, "r0", 0) : e \in {0, 2}}

\* no jobs stream is being consumed
JobsIdle ==
    /\ job_op = ""
    /\ job_pc = "idle"
    /\ job_status = 0
    /\ script = <<>>
    /\ written = 0
    /\ closed = FALSE
    /\ wire = <<>>
    /\ yielded = <<>>
    /\ echoed = <<>>
    /\ job_error = ""
    /\ conn = "none"
    /\ api_args = <<>>
    /\ api_request = <<>>
    /\ api_body = <<>>
    /\ api_result = <<>>
    /\ cli_cmd = ""
    /\ cli_pc = "idle"
    /\ cli_args = <<>>
    /\ cli_idx = 1
    /\ cli_errors = <<>>
    /\ cli_log = <<>>
    /\ cli_statuses = {}

\* ------------------------------------------------------------------ Init
LoginInit ==
    /\ now = 0
    /\ redirect_url \in {<<>>, <<"https://platform.neuromation.io">>}
    /\ curToken \in {<<>>} \cup {<<t>> : t \in InitTokens}
    /\ calls = 0
    /\ pc = "idle"
    /\ argToken = <<>>
    /\ callTime = 0
    /\ session = "none"
    /\ future = [c \in Calls |-> NoFuture]
    /\ callback_url = [c \in Calls |-> <<>>]
    /\ portIdx = 1
    /\ thrown = FALSE
    /\ server = [p \in PortIdxs |-> 0]
    /\ runners = [c \in Calls |-> 0]
    /\ tried = <<>>
    /\ waitDeadline = 0
    /\ exiting = ""
    /\ result = NoResult
    /\ trace = <<>>
    /\ response = 0
    /\ verifier = <<>>
    /\ challenge = <<>>
    /\ authorize_query = <<>>
    /\ token_request = <<>>
    /\ token_response = <<>>

\* the pids of the children watched
Pids == {11, 12}

\* run has not been called, no child is watched
AsyncIdle ==
    /\ run_pc = "idle"
    /\ running_loop = "none"
    /\ main = [kind |-> "", value |-> ""]
    /\ loop = "none"
    /\ current_loop = "unset"
    /\ main_task = "none"
    /\ tasks = 0
    /\ cancelled = 0
    /\ run_result = <<>>
    /\ run_error = ""
    /\ cleanup_error = ""
    /\ waiters = <<>>
    /\ threads = [pid \in Pids |-> <<>>]
    /\ handed = <<>>
    /\ direct = {}

Init == LoginInit /\ JobsIdle /\ AsyncIdle

\* ------------------------------------------------- AuthNegotiator.refresh_token
\* a failure that sends the call back to the token exchange
Propagate_retry(err) ==
    /\ session' = session
    /\ result' = result
    /\ pc' = "got_code"

\* An exception leaves refresh_token: AuthTokenClient.__aexit__ closes the session
Propagate(err) ==
    /\ session' = "closed"
    /\ result' = [ok |-> FALSE, token |-> <<>>, error |-> err]
    /\ pc' = "done"

\* a return that leaves the session of the token client open
ReturnToken_session_open(tok) ==
    /\ session' = session
    /\ result' = [ok |-> TRUE, token |-> <<tok>>, error |-> ""]
    /\ pc' = "done"

\* refresh_token returns tok
ReturnToken(tok) ==
    /\ session' = "closed"
    /\ result' = [ok |-> TRUE, token |-> <<tok>>, error |-> ""]
    /\ pc' = "done"

\* entry of a call: the values every branch of refresh_token sets. The caller
\* calls again only after the loop has finalized what an earlier call left
\* behind (run() makes one loop per command and ends it with shutdown_asyncgens)
Enter(tok) ==
    /\ pc = "idle"
    /\ calls < MaxCalls
    /\ \A p \in PortIdxs : server[p] = 0
    /\ calls' = calls + 1
    /\ argToken' = tok
    /\ callTime' = now
    /\ portIdx' = 1
    /\ thrown' = FALSE
    /\ tried' = <<>>
    /\ exiting' = ""

\* `if not token:` -- get_code: AuthCode(), create_auth_code_app, enter create_app_server
refresh_token_absent ==
    /\ Enter(<<>>)
    /\ \E s \in Secrets :
         /\ verifier' = <<generate_verifier(s)>>
         /\ challenge' = <<generate_challenge(generate_verifier(s))>>
    /\ session' = "open"
    /\ future' = [future EXCEPT ![calls + 1] = [state |-> "pending", value |-> ""]]
    /\ result' = NoResult
    /\ trace' = <<>>
    /\ pc' = "bind"
    /\ response' = 0
    /\ UNCHANGED <<now, redirect_url, curToken, callback_url, server,
                   runners, waitDeadline,
                   authorize_query, token_request, token_response>>
    /\ UNCHANGED <<jobVars, asyncVars>>

\* `if token.is_expired:` -- token_client.refresh(token) sends its POST
refresh_token_expired ==
    /\ curToken # <<>>
    /\ Enter(curToken)
    /\ is_expired(curToken[1], now)
    /\ session' = "open"
    /\ token_request' = <<refresh_payload(curToken[1])>>
    /\ result' = NoResult
    /\ trace' = <<"post_refresh">>
    /\ pc' = "refreshing"
    /\ response' = 0
    /\ UNCHANGED <<now, redirect_url, curToken, future, callback_url,
                   server, runners, waitDeadline,
                   verifier, challenge, authorize_query, token_response>>
    /\ UNCHANGED <<jobVars, asyncVars>>

\* `return token` -- the token is passed through
refresh_token_valid ==
    /\ curToken # <<>>
    /\ Enter(curToken)
    /\ ~is_expired(curToken[1], now)
    /\ trace' = <<>>
    /\ ReturnToken(curToken[1])
    /\ response' = 0
    /\ UNCHANGED <<now, redirect_url, curToken, future, callback_url,
                   server, runners, waitDeadline,
                   verifier, challenge, authorize_query, token_request,
                   token_response>>
    /\ UNCHANGED <<jobVars, asyncVars>>

\* ------------------------------------------------------- create_app_server
\* the except clause without its errno test
swallowed_any_oserror(err) == err \in {"OSError:EADDRINUSE", "OSError:EACCES", "OSError:ECONNREFUSED"}

\* `except OSError as err: if err.errno != errno.EADDRINUSE: raise`
swallowed(err) == err = "OSError:EADDRINUSE"

\* what TCPSite.start may raise for the port at index i ("" when it binds): a
\* port where a site of this process still listens is in use, any other port
\* is free, in use by another process or refused for another reason
bind_errors(i) ==
    IF server[i] # 0 THEN {"OSError:EADDRINUSE"}
    ELSE {"", "OSError:EADDRINUSE", "OSError:EACCES"}

\* the entry of `tried` for the port being tried
Attempt(outcome) == [port |-> portIdx, outcome |-> outcome]

\* the for loop without its else clause: the generator ends without a yield
for_else_missing == "RuntimeError:generator didn't yield"

\* the `else:` of the for loop, taken when the ports are used up
for_else == NoFreePorts

\* the for loop goes on to the next port, or falls into its else clause
NextPort ==
    IF portIdx < NumPorts
    THEN /\ portIdx' = portIdx + 1
         /\ pc' = "bind"
         /\ UNCHANGED <<session, result>>
    ELSE /\ portIdx' = portIdx
         /\ Propagate(for_else)

\* a create_app_server that goes on to the next port after every failure
Leave_to_next_port(err) == NextPort

\* an exception err leaves create_app_server_once after its runner was cleaned up
Leave(err) ==
    IF swallowed(err)
    THEN NextPort
    ELSE /\ portIdx' = portIdx
         /\ Propagate(err)

\* one create_app_server_once whose runner.setup() raises: finally cleans up
create_app_server_once_setup_fails ==
    /\ pc = "bind"
    /\ tried' = Append(tried, Attempt("RuntimeError:setup"))
    /\ Leave("RuntimeError:setup")
    /\ response' = 0
    /\ UNCHANGED <<now, redirect_url, curToken, calls, argToken, callTime,
                   future, callback_url, thrown, server, runners, waitDeadline,
                   exiting, trace,
                   verifier, challenge, authorize_query, token_request,
                   token_response>>
    /\ UNCHANGED <<jobVars, asyncVars>>

\* one create_app_server_once whose site.start() raises: finally cleans up
create_app_server_once_bind_fails ==
    /\ pc = "bind"
    /\ \E err \in bind_errors(portIdx) \ {""} :
         /\ tried' = Append(tried, Attempt(err))
         /\ Leave(err)
    /\ response' = 0
    /\ UNCHANGED <<now, redirect_url, curToken, calls, argToken, callTime,
                   future, callback_url, thrown, server, runners, waitDeadline,
                   exiting, trace,
                   verifier, challenge, authorize_query, token_request,
                   token_response>>
    /\ UNCHANGED <<jobVars, asyncVars>>

\* one create_app_server_once that binds and yields its URL; get_code's body
\* assigns callback_url and AuthCodeCallbackClient.request starts _request(url)
create_app_server_once_yields ==
    /\ pc = "bind"
    /\ ~thrown
    /\ "" \in bind_errors(portIdx)
    /\ tried' = Append(tried, Attempt("bound"))
    /\ server' = [server EXCEPT ![portIdx] = calls]
    /\ runners' = [runners EXCEPT ![calls] = @ + 1]
    /\ callback_url' = [callback_url EXCEPT ![calls] = <<callback_ports[portIdx]>>]
    /\ trace' = trace \o <<"bind", "callback_url", "dispatch">>
    /\ authorize_query' = <<authorize_url_query(challenge[1], callback_ports[portIdx])>>
    /\ pc' = "dispatching"
    /\ response' = 0
    /\ UNCHANGED <<now, redirect_url, curToken, calls, argToken, callTime,
                   session, future, portIdx, thrown, waitDeadline, exiting, result,
                   verifier, challenge, token_request, token_response>>
    /\ UNCHANGED <<jobVars, asyncVars>>

\* create_app_server binds and yields while an exception of the body is being
\* thrown into it: the context manager finds the generator did not stop and
\* leaves it suspended at its yield, the site still listening
create_app_server_once_yields_again ==
    /\ pc = "bind"
    /\ thrown
    /\ "" \in bind_errors(portIdx)
    /\ tried' = Append(tried, Attempt("bound"))
    /\ server' = [server EXCEPT ![portIdx] = calls]
    /\ runners' = [runners EXCEPT ![calls] = @ + 1]
    /\ trace' = Append(trace, "bind")
    /\ Propagate(DidNotStop)
    /\ response' = 0
    /\ UNCHANGED <<now, redirect_url, curToken, calls, argToken, callTime,
                   future, callback_url, portIdx, thrown, waitDeadline, exiting,
                   verifier, challenge, authorize_query, token_request,
                   token_response>>
    /\ UNCHANGED <<jobVars, asyncVars>>

\* ------------------------------------------ AuthCodeCallbackClient.request
\* `await self._request(url)` returns; `await code.wait()` starts
request_dispatched ==
    /\ pc = "dispatching"
    /\ trace' = Append(trace, "await_code")
    /\ waitDeadline' = now + timeout_s
    /\ pc' = "waiting"
    /\ response' = 0
    /\ UNCHANGED <<now, redirect_url, curToken, calls, argToken, callTime,
                   session, future, callback_url, portIdx, thrown, server, runners,
                   tried, exiting, result,
                   verifier, challenge, authorize_query, token_request,
                   token_response>>
    /\ UNCHANGED <<jobVars, asyncVars>>

\* `await self._request(url)` raises
request_dispatch_fails ==
    /\ pc = "dispatching"
    /\ \E e \in DispatchErrors : exiting' = e
    /\ pc' = "teardown"
    /\ response' = 0
    /\ UNCHANGED <<now, redirect_url, curToken, calls, argToken, callTime,
                   session, future, callback_url, portIdx, thrown, server, runners,
                   tried, waitDeadline, result, trace,
                   verifier, challenge, authorize_query, token_request,
                   token_response>>
    /\ UNCHANGED <<jobVars, asyncVars>>

\* ----------------------------------------------------------- AuthCode.wait
\* wait without the check of how the future ended
wait_outcome_unchecked(f) == "return"

\* wait without its except clause
wait_outcome_unconverted(f) == IF f.state = "fulfilled" THEN "return" ELSE "CancelledError"

\* what wait does once the future is done: "return" or the exception it raises
wait_outcome(f) == IF f.state = "fulfilled" THEN "return" ELSE AuthError

\* the future is done: wait_for returns its result or raises CancelledError
wait_done ==
    /\ pc = "waiting"
    /\ future[calls].state # "pending"
    /\ exiting' = wait_outcome(future[calls])
    /\ pc' = "teardown"
    /\ response' = 0
    /\ waitDeadline' = 0
    /\ UNCHANGED <<now, redirect_url, curToken, calls, argToken, callTime,
                   session, future, callback_url, portIdx, thrown, server, runners,
                   tried, result, trace,
                   verifier, challenge, authorize_query, token_request,
                   token_response>>
    /\ UNCHANGED <<jobVars, asyncVars>>

\* timeout_s elapse with the future pending: wait_for cancels it, TimeoutError
wait_timeout ==
    /\ pc = "waiting"
    /\ future[calls].state = "pending"
    /\ now' = waitDeadline
    /\ future' = [future EXCEPT ![calls] = cancel(@)]
    /\ exiting' = wait_outcome(future'[calls])
    /\ pc' = "teardown"
    /\ response' = 0
    /\ waitDeadline' = 0
    /\ UNCHANGED <<redirect_url, curToken, calls, argToken, callTime,
                   session, callback_url, portIdx, thrown, server, runners,
                   tried, result, trace,
                   verifier, challenge, authorize_query, token_request,
                   token_response>>
    /\ UNCHANGED <<jobVars, asyncVars>>

\* ------------------------------------------- create_app_server_once: finally
\* the body of get_code is left: `finally: await runner.cleanup()`, then the
\* exception (if any) reaches create_app_server's except clause
runner_cleanup ==
    /\ pc = "teardown"
    /\ server' = [p \in PortIdxs |-> IF server[p] = calls THEN 0 ELSE server[p]]
    /\ runners' = [runners EXCEPT ![calls] = 0]
    /\ IF exiting = "return"
       THEN /\ pc' = "got_code"
            /\ UNCHANGED <<portIdx, thrown, session, result>>
       ELSE /\ thrown' = swallowed(exiting)
            /\ Leave(exiting)
    /\ response' = 0
    /\ exiting' = ""
    /\ UNCHANGED <<now, redirect_url, curToken, calls, argToken, callTime,
                   future, callback_url, tried, waitDeadline, trace,
                   verifier, challenge, authorize_query, token_request,
                   token_response>>
    /\ UNCHANGED <<jobVars, asyncVars>>

\* ---------------------------------------------------------- AuthTokenClient
\* raise_for_status that lets client errors through
raise_for_status_server_errors(status) == status >= 500

\* resp.raise_for_status() raises ClientResponseError: the status is 400 or more
raise_for_status(status) == status >= 400

\* request(code): `code=await code.wait()`, then the POST is sent
token_client_request ==
    /\ pc = "got_code"
    /\ response' = 0
    /\ IF wait_outcome(future[calls]) = "return"
       THEN /\ trace' = Append(trace, "post_exchange")
            /\ token_request' = <<request_payload(verifier[1], future[calls].value,
                                                  callback_url[calls][1])>>
            /\ pc' = "exchanging"
            /\ UNCHANGED <<session, result>>
       ELSE /\ UNCHANGED <<trace, token_request>>
            /\ Propagate(wait_outcome(future[calls]))
    /\ UNCHANGED <<now, redirect_url, curToken, calls, argToken, callTime,
                   future, callback_url, portIdx, thrown, server, runners, tried,
                   waitDeadline, exiting,
                   verifier, challenge, authorize_query, token_response>>
    /\ UNCHANGED <<jobVars, asyncVars>>

\* request(code): the response arrives
request_response ==
    /\ pc = "exchanging"
    /\ response' = 0
    /\ \E resp \in TokenResponses :
         /\ token_response' = <<resp>>
         /\ IF raise_for_status(resp.status)
            THEN Propagate(TokenError)
            ELSE IF resp.payload = <<>>
            THEN Propagate("KeyError:access_token")
            ELSE IF resp.payload[1].refresh_token = <<>>
            THEN Propagate("KeyError:refresh_token")
            ELSE ReturnToken(AuthToken_create(resp.payload[1].access_token,
                                              resp.payload[1].expires_in,
                                              resp.payload[1].refresh_token[1], now))
    /\ UNCHANGED <<now, redirect_url, curToken, calls, argToken, callTime,
                   future, callback_url, portIdx, thrown, server, runners, tried,
                   waitDeadline, exiting, trace,
                   verifier, challenge, authorize_query, token_request>>
    /\ UNCHANGED <<jobVars, asyncVars>>

\* refresh(token): the response arrives
refresh_response ==
    /\ pc = "refreshing"
    /\ response' = 0
    /\ \E resp \in TokenResponses :
         /\ token_response' = <<resp>>
         /\ IF raise_for_status(resp.status)
            THEN Propagate(TokenError)
            ELSE IF resp.payload = <<>>
            THEN Propagate("KeyError:access_token")
            ELSE ReturnToken(AuthToken_create(resp.payload[1].access_token,
                                              resp.payload[1].expires_in,
                                              argToken[1].refresh_token, now))
    /\ UNCHANGED <<now, redirect_url, curToken, calls, argToken, callTime,
                   future, callback_url, portIdx, thrown, server, runners, tried,
                   waitDeadline, exiting, trace,
                   verifier, challenge, authorize_query, token_request>>
    /\ UNCHANGED <<jobVars, asyncVars>>

\* ------------------------------------------------- AuthCodeCallbackHandler
\* handle without the redirect to the success URL
handle_response_no_redirect(f, q) ==
    IF q = <<>> \/ q[1] = ""
    THEN [f |-> cancel(f), status |-> 400]
    ELSE [f |-> set_value(f, q[1]).f,
          status |-> IF set_value(f, q[1]).raised THEN 500 ELSE 200]

\* handle(request): the waiter after it and the status of the response, for
\* a request whose query `code` is q, on the waiter f
handle_response(f, q) ==
    IF q = <<>> \/ q[1] = ""
    THEN [f |-> cancel(f), status |-> 400]
    ELSE [f |-> set_value(f, q[1]).f,
          status |-> IF set_value(f, q[1]).raised THEN 500
                     ELSE IF redirect_url # <<>> THEN 302 ELSE 200]

\* handle(request) on the site listening at port index p
handle_at(p, q) ==
    /\ server[p] # 0
    /\ future' = [future EXCEPT ![server[p]] = handle_response(@, q).f]
    /\ response' = handle_response(future[server[p]], q).status
    /\ UNCHANGED <<now, redirect_url, curToken, calls, pc, argToken,
                   callTime, session, callback_url, portIdx, thrown, server, runners,
                   tried, waitDeadline, exiting, result, trace,
                   verifier, challenge, authorize_query, token_request,
                   token_response>>
    /\ UNCHANGED <<jobVars, asyncVars>>

handle == \E p \in PortIdxs, q \in Queries : handle_at(p, q)

\* ------------------------------------------------------------- environment
\* one second passes while the program is idle or suspended on the outside world;
\* a pending wait times out before the clock passes its deadline
Tick ==
    /\ now < MaxTime
    /\ pc \in {"idle", "dispatching", "waiting", "exchanging", "refreshing"}
    /\ (pc = "waiting" /\ future[calls].state = "pending") => now + 1 < waitDeadline
    /\ now' = now + 1
    /\ UNCHANGED <<redirect_url, curToken, calls, pc, argToken, callTime,
                   session, future, callback_url, portIdx, thrown, server, runners,
                   tried, waitDeadline, exiting, result, trace, response,
                   verifier, challenge, authorize_query, token_request,
                   token_response>>
    /\ UNCHANGED <<jobVars, asyncVars>>

\* the AuthCode of call c is still referenced by the handler of a listening site
Referenced(c, srv) == \E p \in PortIdxs : srv[p] = c

\* the caller takes the outcome of the call and keeps the token it got; the
\* locals of the finished call are gone
Return ==
    /\ pc = "done"
    /\ pc' = "idle"
    /\ verifier' = <<>>
    /\ challenge' = <<>>
    /\ authorize_query' = <<>>
    /\ token_request' = <<>>
    /\ token_response' = <<>>
    /\ curToken' = IF result.ok THEN result.token ELSE curToken
    /\ argToken' = <<>>
    /\ callTime' = 0
    /\ portIdx' = 1
    /\ thrown' = FALSE
    /\ tried' = <<>>
    /\ waitDeadline' = 0
    /\ exiting' = ""
    /\ result' = NoResult
    /\ trace' = <<>>
    /\ session' = "none"
    /\ future' = [c \in Calls |-> IF Referenced(c, server) THEN future[c] ELSE NoFuture]
    /\ callback_url' = [c \in Calls |-> IF Referenced(c, server) THEN callback_url[c] ELSE <<>>]
    /\ response' = 0
    /\ UNCHANGED <<now, redirect_url, calls, server, runners>>
    /\ UNCHANGED <<jobVars, asyncVars>>

\* the event loop finalizes a generator left suspended (loop.shutdown_asyncgens
\* or its asyncgen hook): create_app_server_once's finally runs at last
shutdown_asyncgens ==
    /\ pc \in {"done", "idle"}
    /\ \E p \in PortIdxs :
         /\ server[p] # 0
         /\ runners' = [runners EXCEPT ![server[p]] = 0]
         /\ server' = [server EXCEPT ![p] = 0]
    /\ future' = [c \in Calls |-> IF Referenced(c, server') \/ (pc = "done" /\ c = calls)
                                  THEN future[c] ELSE NoFuture]
    /\ callback_url' = [c \in Calls |-> IF Referenced(c, server') \/ (pc = "done" /\ c = calls)
                                        THEN callback_url[c] ELSE <<>>]
    /\ UNCHANGED <<now, redirect_url, curToken, calls, pc, argToken,
                   callTime, session, portIdx, thrown, tried, waitDeadline, exiting,
                   result, trace, response,
                   verifier, challenge, authorize_query, token_request,
                   token_response>>
    /\ UNCHANGED <<jobVars, asyncVars>>

Next ==
    \/ refresh_token_absent
    \/ refresh_token_expired
    \/ refresh_token_valid
    \/ create_app_server_once_setup_fails
    \/ create_app_server_once_bind_fails
    \/ create_app_server_once_yields
    \/ create_app_server_once_yields_again
    \/ request_dispatched
    \/ request_dispatch_fails
    \/ wait_done
    \/ wait_timeout
    \/ runner_cleanup
    \/ token_client_request
    \/ request_response
    \/ refresh_response
    \/ handle
    \/ Tick
    \/ Return
    \/ shutdown_asyncgens

Spec == Init /\ [][Next]_vars

TypeOK ==
    /\ now \in Nat
    /\ pc \in {"idle", "bind", "dispatching", "waiting", "teardown", "got_code",
               "exchanging", "refreshing", "done"}
    /\ calls \in 0..MaxCalls
    /\ session \in {"none", "open", "closed"}
    /\ \A c \in Calls : future[c].state \in {"none", "pending", "fulfilled", "cancelled"}
    /\ job_op \in {"", "monitor", "top", "kill", "status", "submit", "list"}
    /\ job_pc \in {"idle", "streaming", "ended", "failed", "cancelled"}
    /\ conn \in {"none", "open", "closed"}
    /\ run_pc \in {"idle", "check", "check_coroutine", "new_loop", "set_loop",
                   "start", "running", "cleanup", "asyncgens", "finally", "done"}
    /\ running_loop \in {"none", "outer", "new"}
    /\ loop \in {"none", "open", "closed"}
    /\ current_loop \in {"unset", "outer", "new", "none"}
    /\ main_task \in {"none", "pending", "done"}
    /\ tasks \in 0..MaxTasks
    /\ cancelled \in 0..(MaxTasks + 1)
    /\ Len(waiters) <= MaxWaiters
    /\ Len(handed) = Len(waiters)
    /\ written \in 0..Len(script)
    /\ closed \in BOOLEAN

\* ======================================================================
\* Jobs streams: Jobs.monitor and Jobs.top (the API client, modelled from
\* the specification), the test servers that feed them and the consumer
\* `neuro job monitor`
\* ======================================================================
\* the chunks a log server writes: byte strings; 255 is a byte that no UTF-8
\* text contains
Chunks == {<<97>>, <<98, 255>>}

\* the telemetry frames a server sends: JSON objects, the gpu keys optional
Frames ==
    {[cpu |-> 1, memory |-> 50, timestamp |-> 0],
     [cpu |-> 1, memory |-> 50, timestamp |-> 1,
      gpu_duty_cycle |-> 50, gpu_memory |-> 55]}

\* the sequences of at most MaxItems elements of S
Scripts(S) == UNION {[1..n -> S] : n \in 0..MaxItems}

ResourceNotFound == "ResourceNotFound"
JobNotFound == "ValueError:not found"
JobNotRunning == "ValueError:not running"

RECURSIVE Flatten(_)
\* b"".join(chunks)
Flatten(chunks) ==
    IF chunks = <<>> THEN <<>> ELSE Head(chunks) \o Flatten(Tail(chunks))

\* monitor that takes a 404 response for a stream
monitor_status_error_ignored(status) == ""

\* Jobs.monitor: the error a response status ends the sequence with, "" when none
monitor_status_error(status) == IF status = 404 THEN ResourceNotFound ELSE ""

\* Jobs.top: the error the status of the handshake ends the sequence with
\* a top that takes a refused handshake for an empty stream
top_status_error_ignored(status) == ""

top_status_error(status) == IF status = 400 THEN JobNotFound ELSE ""

\* top that ends normally however many messages were delivered
top_end_silent(delivered) == ""

\* Jobs.top: how the sequence ends when the socket closes after `delivered` messages
top_end(delivered) == IF delivered = 0 THEN JobNotRunning ELSE ""

Opt(frame, key) == IF key \in DOMAIN frame THEN <<frame[key]>> ELSE <<>>

\* from_api that leaves the gpu readings out
JobTelemetry_from_api_no_gpu(frame) ==
    [cpu |-> frame.cpu, memory |-> frame.memory, timestamp |-> frame.timestamp,
     gpu_duty_cycle |-> <<>>, gpu_memory |-> <<>>]

\* JobTelemetry decoded from one frame; the gpu readings are Optional
JobTelemetry_from_api(frame) ==
    [cpu |-> frame.cpu, memory |-> frame.memory, timestamp |-> frame.timestamp,
     gpu_duty_cycle |-> Opt(frame, "gpu_duty_cycle"),
     gpu_memory |-> Opt(frame, "gpu_memory")]

\* chunk.decode(errors="ignore"): the bytes that are no text are left out
decode(chunk) == SelectSeq(chunk, LAMBDA b : b < 128)

\* the body of the loop that breaks on whatever it reads
monitor_breaks_always(chunk) == TRUE

\* `if not chunk: break`
monitor_breaks(chunk) == chunk = <<>>

\* the body of `async for chunk in client.jobs.monitor(id)` runs on chunk
monitor_body(chunk) ==
    IF monitor_breaks(chunk)
    THEN /\ job_pc' = "ended"
         /\ echoed' = echoed
    ELSE /\ job_pc' = job_pc
         /\ echoed' = echoed \o decode(chunk)

\* `neuro job monitor` starts its loop: the request is answered with a status
jobs_monitor_open ==
    /\ job_pc = "idle"
    /\ job_op' = "monitor"
    /\ \E st \in {200, 404} :
         /\ job_status' = st
         /\ job_error' = monitor_status_error(st)
         /\ IF monitor_status_error(st) # ""
            THEN /\ job_pc' = "failed"
                 /\ script' = <<>>
            ELSE /\ job_pc' = "streaming"
                 /\ script' \in Scripts(Chunks)
    /\ UNCHANGED <<written, closed, wire, yielded, echoed>>
    /\ conn' = IF job_pc' = "failed" THEN "closed" ELSE "open"
    /\ UNCHANGED apiVars
    /\ UNCHANGED <<loginVars, asyncVars, cliVars>>

\* log_stream: `await resp.write(chunk)`
log_stream_write ==
    /\ job_op = "monitor"
    /\ job_pc = "streaming"
    /\ written < Len(script)
    /\ written' = written + 1
    /\ wire' = wire \o script[written + 1]
    /\ UNCHANGED <<job_op, job_pc, job_status, script, closed, yielded, echoed,
                   job_error>>
    /\ conn' = conn
    /\ UNCHANGED apiVars
    /\ UNCHANGED <<loginVars, asyncVars, cliVars>>

\* the handler returns: the response ends, or the socket is closed
stream_close ==
    /\ job_pc = "streaming"
    /\ written = Len(script)
    /\ ~closed
    /\ closed' = TRUE
    /\ UNCHANGED <<job_op, job_pc, job_status, script, written, wire, yielded,
                   echoed, job_error>>
    /\ conn' = conn
    /\ UNCHANGED apiVars
    /\ UNCHANGED <<loginVars, asyncVars, cliVars>>

\* Jobs.monitor reads what has arrived, some bytes at least, and yields it;
\* the body of the consumer's loop runs
jobs_monitor_yields ==
    /\ job_op = "monitor"
    /\ job_pc = "streaming"
    /\ wire # <<>>
    /\ \E k \in 1..Len(wire) :
         /\ yielded' = Append(yielded, SubSeq(wire, 1, k))
         /\ wire' = SubSeq(wire, k + 1, Len(wire))
         /\ monitor_body(SubSeq(wire, 1, k))
    /\ UNCHANGED <<job_op, job_status, script, written, closed, job_error>>
    /\ conn' \in (IF job_pc' = "ended" THEN {"open", "closed"} ELSE {conn})
    /\ UNCHANGED apiVars
    /\ UNCHANGED <<loginVars, asyncVars, cliVars>>

\* Jobs.monitor reads an empty chunk at the end of the body: the sequence ends
jobs_monitor_ends ==
    /\ job_op = "monitor"
    /\ job_pc = "streaming"
    /\ wire = <<>>
    /\ closed
    /\ job_pc' = "ended"
    /\ UNCHANGED <<job_op, job_status, script, written, closed, wire, yielded,
                   echoed, job_error>>
    /\ conn' = "closed"
    /\ UNCHANGED apiVars
    /\ UNCHANGED <<loginVars, asyncVars, cliVars>>

\* Jobs.monitor hands the empty chunk on to the consumer, whose loop breaks
jobs_monitor_yields_empty ==
    /\ job_op = "monitor"
    /\ job_pc = "streaming"
    /\ wire = <<>>
    /\ closed
    /\ yielded' = Append(yielded, <<>>)
    /\ monitor_body(<<>>)
    /\ UNCHANGED <<job_op, job_status, script, written, closed, wire, job_error>>
    /\ conn' \in {"open", "closed"}
    /\ UNCHANGED apiVars
    /\ UNCHANGED <<loginVars, asyncVars, cliVars>>

\* the consumer starts `async for data in client.jobs.top(id)`: the handshake
\* is answered with a status
jobs_top_open ==
    /\ job_pc = "idle"
    /\ job_op' = "top"
    /\ \E st \in {101, 400} :
         /\ job_status' = st
         /\ job_error' = top_status_error(st)
         /\ IF top_status_error(st) # ""
            THEN /\ job_pc' = "failed"
                 /\ script' = <<>>
            ELSE /\ job_pc' = "streaming"
                 /\ script' \in Scripts(Frames)
    /\ UNCHANGED <<written, closed, wire, yielded, echoed>>
    /\ conn' = IF job_pc' = "failed" THEN "closed" ELSE "open"
    /\ UNCHANGED apiVars
    /\ UNCHANGED <<loginVars, asyncVars, cliVars>>

\* top_stream: `await ws.send_json(frame)`
top_stream_send ==
    /\ job_op = "top"
    /\ job_pc = "streaming"
    /\ written < Len(script)
    /\ written' = written + 1
    /\ wire' = Append(wire, script[written + 1])
    /\ UNCHANGED <<job_op, job_pc, job_status, script, closed, yielded, echoed,
                   job_error>>
    /\ conn' = conn
    /\ UNCHANGED apiVars
    /\ UNCHANGED <<loginVars, asyncVars, cliVars>>

\* Jobs.top receives a message and yields the JobTelemetry decoded from it
jobs_top_yields ==
    /\ job_op = "top"
    /\ job_pc = "streaming"
    /\ wire # <<>>
    /\ yielded' = Append(yielded, JobTelemetry_from_api(Head(wire)))
    /\ wire' = Tail(wire)
    /\ UNCHANGED <<job_op, job_pc, job_status, script, written, closed, echoed,
                   job_error>>
    /\ conn' = conn
    /\ UNCHANGED apiVars
    /\ UNCHANGED <<loginVars, asyncVars, cliVars>>

\* Jobs.top sees the socket closed: the sequence ends, with an error when no
\* message was delivered
jobs_top_closed ==
    /\ job_op = "top"
    /\ job_pc = "streaming"
    /\ wire = <<>>
    /\ closed
    /\ job_error' = top_end(Len(yielded))
    /\ job_pc' = IF top_end(Len(yielded)) # "" THEN "failed" ELSE "ended"
    /\ UNCHANGED <<job_op, job_status, script, written, closed, wire, yielded,
                   echoed>>
    /\ conn' = "closed"
    /\ UNCHANGED apiVars
    /\ UNCHANGED <<loginVars, asyncVars, cliVars>>

\* ---- the request/response operations of the jobs client ----

\* the jobs a server describes: created with and without a name, exposed with
\* a named and an unnamed http url or not at all
JobJsons ==
    { [id |-> "job-id-1", status |-> "pending", name |-> "job-name-1",
       http_url |-> "http://job-id.jobs.neu.ro/",
       http_url_named |-> "http://job-name-owner.jobs.neu.ro/"],
      [id |-> "job-id-7", status |-> "running",
       http_url |-> "http://job-id.jobs.neu.ro/"],
      [id |-> "job-id-10", status |-> "failed"] }

JobIds == {"job-id"}

\* a member of the JobStatus enumeration, and its value on the wire
JobStatus(value) == <<"JobStatus", value>>
JobStatus_value(status) == status[2]

URL(text) == <<"URL", text>>

\* from_api that knows the unnamed http url only
JobDescription_from_api_unnamed_url(res) ==
    [id |-> res.id,
     status |-> JobStatus(res.status),
     name |-> Opt(res, "name"),
     http_url |-> URL(IF "http_url" \in DOMAIN res THEN res.http_url ELSE "")]

\* JobDescription.from_api: the descriptor of a job the server describes
JobDescription_from_api(res) ==
    [id |-> res.id,
     status |-> JobStatus(res.status),
     name |-> Opt(res, "name"),
     http_url |-> URL(IF "http_url_named" \in DOMAIN res THEN res.http_url_named
                      ELSE IF "http_url" \in DOMAIN res THEN res.http_url
                      ELSE "")]

\* a request of the jobs client
Request(method, path, query, json) ==
    [method |-> method, path |-> path, query |-> query, json |-> json]

\* a kill that takes every answer for success
kill_error_ignored(status) == ""

\* kill: the answer 404 is ResourceNotFound
kill_error(status) == IF status = 404 THEN ResourceNotFound ELSE ""

\* kill(id): DELETE /jobs/{id}; 204 has no body and nothing is returned
jobs_kill ==
    /\ job_pc = "idle"
    /\ job_op' = "kill"
    /\ \E id \in JobIds, st \in {204, 404} :
         /\ api_args' = <<id>>
         /\ api_request' = <<Request("DELETE", <<"jobs", id>>, {}, <<>>)>>
         /\ job_status' = st
         /\ job_error' = kill_error(st)
         /\ job_pc' = IF kill_error(st) # "" THEN "failed" ELSE "ended"
    /\ api_body' = <<>>
    /\ api_result' = <<>>
    /\ UNCHANGED <<script, written, closed, wire, yielded, echoed, conn>>
    /\ UNCHANGED <<loginVars, asyncVars, cliVars>>

\* a status that takes every answer for a job
status_error_ignored(status) == ""

\* status: the answer 404 is ResourceNotFound
status_error(status) == IF status = 404 THEN ResourceNotFound ELSE ""

\* status(id): GET /jobs/{id}; the descriptor is decoded from the body
jobs_status ==
    /\ job_pc = "idle"
    /\ job_op' = "status"
    /\ \E id \in JobIds, st \in {200, 404}, body \in JobJsons :
         /\ api_args' = <<id>>
         /\ api_request' = <<Request("GET", <<"jobs", id>>, {}, <<>>)>>
         /\ job_status' = st
         /\ job_error' = status_error(st)
         /\ IF status_error(st) # ""
            THEN /\ job_pc' = "failed"
                 /\ api_body' = <<>>
                 /\ api_result' = <<>>
            ELSE /\ job_pc' = "ended"
                 /\ api_body' = <<body>>
                 /\ api_result' = <<JobDescription_from_api(body)>>
    /\ UNCHANGED <<script, written, closed, wire, yielded, echoed, conn>>
    /\ UNCHANGED <<loginVars, asyncVars, cliVars>>

\* the volumes, name and description a job is submitted with, each Optional
Volumes ==
    <<[src_storage_uri |-> "storage://test-user/path_read_only",
       dst_path |-> "/container/read_only", read_only |-> TRUE]>>

SubmitArgs ==
    [volumes : {<<>>, <<Volumes>>},
     name : {<<>>, <<"test-job-name">>},
     description : {<<>>, <<"job description">>},
     is_preemptible : BOOLEAN]

\* the function with no key
Nothing == [key \in {} |-> key]

\* an entry that carries null for an argument not set
entry_or_null(key, arg) == key :> (IF arg = <<>> THEN <<"null">> ELSE arg[1])

\* the entry of an optional argument in a JSON object: none when not set
entry(key, arg) == IF arg = <<>> THEN Nothing ELSE key :> arg[1]

\* the JSON body submit sends
submit_payload(args) ==
    [container |-> [image |-> "submit-image-name", command |-> "submit-command"]
                      @@ entry("volumes", args.volumes),
     is_preemptible |-> args.is_preemptible]
        @@ entry("name", args.name)
        @@ entry("description", args.description)

\* submit(...): POST /jobs with the sparse body; the descriptor is decoded
\* from the response
jobs_submit ==
    /\ job_pc = "idle"
    /\ job_op' = "submit"
    /\ job_pc' = "ended"
    /\ job_status' = 200
    /\ job_error' = ""
    /\ \E args \in SubmitArgs, body \in JobJsons :
         /\ api_args' = <<args>>
         /\ api_request' = <<Request("POST", <<"jobs">>, {}, <<submit_payload(args)>>)>>
         /\ api_body' = <<body>>
         /\ api_result' = <<JobDescription_from_api(body)>>
    /\ UNCHANGED <<script, written, closed, wire, yielded, echoed, conn>>
    /\ UNCHANGED <<loginVars, asyncVars, cliVars>>

\* the filters list is called with: a set of statuses and an Optional name
ListStatuses == SUBSET {JobStatus("running"), JobStatus("failed")}
ListNames == {<<>>, <<"job-name-1">>}

\* a query that leaves the name out
list_query_no_name(statuses, name) ==
    {<<"status", JobStatus_value(status)>> : status \in statuses}

\* the query parameters of list: one `status` per status, `name` when given
list_query(statuses, name) ==
    {<<"status", JobStatus_value(status)>> : status \in statuses}
        \cup {<<"name", name[i]>> : i \in 1..Len(name)}

\* list(statuses, name): GET /jobs; one descriptor per element of the
\* response's "jobs" array, in its order
jobs_list ==
    /\ job_pc = "idle"
    /\ job_op' = "list"
    /\ job_pc' = "ended"
    /\ job_status' = 200
    /\ job_error' = ""
    /\ \E statuses \in ListStatuses, name \in ListNames, jobs \in Scripts(JobJsons) :
         /\ api_args' = <<statuses, name>>
         /\ api_request' = <<Request("GET", <<"jobs">>, list_query(statuses, name), <<>>)>>
         /\ api_body' = <<[jobs |-> jobs]>>
         /\ api_result' = <<[i \in 1..Len(jobs) |-> JobDescription_from_api(jobs[i])]>>
    /\ UNCHANGED <<script, written, closed, wire, yielded, echoed, conn>>
    /\ UNCHANGED <<loginVars, asyncVars, cliVars>>

\* the task that consumes a stream is cancelled: CancelledError is raised at
\* the read the stream is suspended in and leaves the stream and its consumer
jobs_cancelled ==
    /\ job_op \in {"monitor", "top"}
    /\ job_pc = "streaming"
    /\ job_pc' = "cancelled"
    /\ job_error' = "CancelledError"
    /\ conn' = "closed"
    /\ UNCHANGED <<job_op, job_status, script, written, closed, wire, yielded,
                   echoed>>
    /\ UNCHANGED apiVars
    /\ UNCHANGED <<loginVars, asyncVars, cliVars>>

\* a client that leaves its connections as they are
client_close_noop(c) == c

\* Client.close(): the session closes every connection still open
client_close(c) == IF c = "open" THEN "closed" ELSE c

\* the consumer leaves `async with ... as client`: the client is closed, its
\* operation is over
jobs_exit ==
    /\ job_pc \in {"ended", "failed", "cancelled"}
    /\ job_op' = ""
    /\ job_pc' = "idle"
    /\ job_status' = 0
    /\ script' = <<>>
    /\ written' = 0
    /\ closed' = FALSE
    /\ wire' = <<>>
    /\ yielded' = <<>>
    /\ echoed' = <<>>
    /\ job_error' = ""
    /\ conn' = client_close(conn)
    /\ api_args' = <<>>
    /\ api_request' = <<>>
    /\ api_body' = <<>>
    /\ api_result' = <<>>
    /\ UNCHANGED <<loginVars, asyncVars, cliVars>>

JobsInit ==
    /\ LoginInit
    /\ redirect_url = <<>>
    /\ curToken = <<>>
    /\ JobsIdle
    /\ AsyncIdle

JobsNext ==
    \/ jobs_monitor_open
    \/ log_stream_write
    \/ stream_close
    \/ jobs_monitor_yields
    \/ jobs_monitor_ends
    \/ jobs_monitor_yields_empty
    \/ jobs_top_open
    \/ top_stream_send
    \/ jobs_top_yields
    \/ jobs_top_closed
    \/ jobs_kill
    \/ jobs_status
    \/ jobs_submit
    \/ jobs_list
    \/ jobs_cancelled
    \/ jobs_exit

JobsSpec == JobsInit /\ [][JobsNext]_vars

\* ======================================================================
\* asyncio_utils: run and ThreadedChildWatcher
\* ======================================================================

\* what run can be given: a coroutine, something that is no coroutine
Mains ==
    { [kind |-> "coroutine", value |-> ""],
      [kind |-> "not_coroutine", value |-> ""] }

\* how a coroutine ends: it returns a value or raises
Outcomes ==
    { [kind |-> "returns", value |-> "v1"],
      [kind |-> "raises", value |-> "MainError"] }

\* what run can find in its thread: no current loop, a current loop that is
\* not running, a current loop that is running (run is called from a callback)
Threads ==
    { [current |-> "unset", running |-> "none"],
      [current |-> "outer", running |-> "none"],
      [current |-> "outer", running |-> "outer"] }

NoCurrentLoop == "RuntimeError:There is no current event loop"
CalledFromRunningLoop ==
    "RuntimeError:asyncio.run() cannot be called from a running event loop"
AnotherLoopRunning ==
    "RuntimeError:Cannot run the event loop while another loop is running"
CoroutineExpected == "ValueError:a coroutine was expected"
\* an exception that is no Exception (KeyboardInterrupt, SystemExit), raised
\* by a task or generator while the loop finalizes it
Interrupt == "BaseException"

\* the exception the body of the first `try` of run raises: get_event_loop()
\* fails without a current loop, and a running loop is refused
get_event_loop_check(current, running) ==
    IF current = "unset" THEN NoCurrentLoop
    ELSE IF running # "none" THEN CalledFromRunningLoop
    ELSE ""

\* `except RuntimeError: pass`: what leaves the first `try` of run
except_RuntimeError(exc) ==
    IF exc \in {NoCurrentLoop, CalledFromRunningLoop} THEN "" ELSE exc

\* run(main) is called
run_called ==
    /\ run_pc = "idle"
    /\ run_pc' = "check"
    /\ main' \in Mains
    /\ \E t \in Threads :
         /\ current_loop' = t.current
         /\ running_loop' = t.running
    /\ UNCHANGED <<loop, main_task, tasks, cancelled, run_result, run_error,
                   cleanup_error, watcherVars>>
    /\ UNCHANGED <<loginVars, jobVars>>

\* the check for a running loop
run_checks_loop ==
    /\ run_pc = "check"
    /\ LET exc == except_RuntimeError(get_event_loop_check(current_loop, running_loop)) IN
         /\ run_error' = exc
         /\ run_pc' = IF exc # "" THEN "done" ELSE "check_coroutine"
    /\ UNCHANGED <<running_loop, main, loop, current_loop, main_task, tasks, cancelled,
                   run_result, cleanup_error, watcherVars>>
    /\ UNCHANGED <<loginVars, jobVars>>

\* `if not asyncio.iscoroutine(main): raise ValueError(...)`
run_checks_coroutine ==
    /\ run_pc = "check_coroutine"
    /\ IF main.kind = "not_coroutine"
       THEN /\ run_error' = CoroutineExpected
            /\ run_pc' = "done"
       ELSE /\ run_error' = ""
            /\ run_pc' = "new_loop"
    /\ UNCHANGED <<running_loop, main, loop, current_loop, main_task, tasks, cancelled,
                   run_result, cleanup_error, watcherVars>>
    /\ UNCHANGED <<loginVars, jobVars>>

\* `loop = asyncio.new_event_loop()`
run_new_event_loop ==
    /\ run_pc = "new_loop"
    /\ loop' = "open"
    /\ run_pc' = "set_loop"
    /\ UNCHANGED <<running_loop, main, current_loop, main_task, tasks, cancelled,
                   run_result, run_error, cleanup_error, watcherVars>>
    /\ UNCHANGED <<loginVars, jobVars>>

\* `asyncio.set_event_loop(loop)`, `main_task = loop.create_task(main)`
run_set_event_loop ==
    /\ run_pc = "set_loop"
    /\ current_loop' = "new"
    /\ main_task' = "pending"
    /\ run_pc' = "start"
    /\ UNCHANGED <<running_loop, main, loop, tasks, cancelled, run_result, run_error,
                   cleanup_error, watcherVars>>
    /\ UNCHANGED <<loginVars, jobVars>>

\* `loop.run_until_complete(main_task)` starts the loop, or fails because
\* another loop is running in the thread
run_until_complete_starts ==
    /\ run_pc = "start"
    /\ IF running_loop # "none"
       THEN /\ run_error' = AnotherLoopRunning
            /\ run_pc' = "cleanup"
            /\ running_loop' = running_loop
       ELSE /\ run_error' = ""
            /\ run_pc' = "running"
            /\ running_loop' = "new"
    /\ UNCHANGED <<main, loop, current_loop, main_task, tasks, cancelled,
                   run_result, cleanup_error, watcherVars>>
    /\ UNCHANGED <<loginVars, jobVars>>

\* main creates a task it does not wait for
main_creates_task ==
    /\ run_pc = "running"
    /\ tasks < MaxTasks
    /\ tasks' = tasks + 1
    /\ UNCHANGED <<run_pc, running_loop, main, loop, current_loop, main_task, cancelled,
                   run_result, run_error, cleanup_error, watcherVars>>
    /\ UNCHANGED <<loginVars, jobVars>>

\* main returns or raises: run_until_complete stops the loop and returns the
\* result of main_task or raises its exception
main_completes ==
    /\ run_pc = "running"
    /\ main_task' = "done"
    /\ running_loop' = "none"
    /\ main' \in Outcomes
    /\ IF main'.kind = "returns"
       THEN /\ run_result' = <<main'.value>>
            /\ run_error' = ""
       ELSE /\ run_result' = <<>>
            /\ run_error' = main'.value
    /\ run_pc' = "cleanup"
    /\ UNCHANGED <<loop, current_loop, tasks, cancelled, cleanup_error,
                   watcherVars>>
    /\ UNCHANGED <<loginVars, jobVars>>

\* a cleanup that leaves the tasks alone
to_cancel_none(n, task) == 0

\* _cancel_all_tasks: the tasks of the loop that are not done (asyncio.all_tasks),
\* n others and the main task
to_cancel(n, task) == n + (IF task = "pending" THEN 1 ELSE 0)

\* _cancel_all_tasks: every task of the loop not done is cancelled and all are
\* awaited with run_until_complete, which fails when another loop is running
\* and lets through what is no Exception, leaving tasks not awaited
cancel_all_tasks ==
    /\ run_pc = "cleanup"
    /\ IF to_cancel(tasks, main_task) = 0
       THEN /\ run_pc' = "asyncgens"
            /\ UNCHANGED <<tasks, cancelled, cleanup_error>>
       ELSE IF running_loop # "none"
       THEN /\ cancelled' = to_cancel(tasks, main_task)
            /\ cleanup_error' = AnotherLoopRunning
            /\ run_pc' = "finally"
            /\ UNCHANGED tasks
       ELSE /\ cancelled' = to_cancel(tasks, main_task)
            /\ \/ /\ tasks' = 0
                  /\ cleanup_error' = ""
                  /\ run_pc' = "asyncgens"
               \/ /\ tasks' \in 0..tasks
                  /\ cleanup_error' = Interrupt
                  /\ run_pc' = "finally"
    /\ UNCHANGED <<running_loop, main, loop, current_loop, main_task, run_result,
                   run_error, watcherVars>>
    /\ UNCHANGED <<loginVars, jobVars>>

\* `loop.run_until_complete(loop.shutdown_asyncgens())`
run_shutdown_asyncgens ==
    /\ run_pc = "asyncgens"
    /\ cleanup_error' \in (IF running_loop # "none" THEN {AnotherLoopRunning}
                           ELSE {"", Interrupt})
    /\ run_pc' = "finally"
    /\ UNCHANGED <<running_loop, main, loop, current_loop, main_task, tasks, cancelled,
                   run_result, run_error, watcherVars>>
    /\ UNCHANGED <<loginVars, jobVars>>

\* a run that leaves its loop open and installed
run_finally_keeps_loop ==
    /\ run_pc = "finally"
    /\ run_pc' = "done"
    /\ IF cleanup_error # ""
       THEN /\ run_error' = cleanup_error
            /\ run_result' = <<>>
       ELSE UNCHANGED <<run_result, run_error>>
    /\ UNCHANGED <<running_loop, main, loop, current_loop, main_task, tasks,
                   cancelled, cleanup_error, watcherVars>>
    /\ UNCHANGED <<loginVars, jobVars>>

\* the inner `finally`: set_event_loop(None), loop.close(); an exception of
\* the cleanup takes the place of what run was returning or raising
run_finally ==
    /\ run_pc = "finally"
    /\ current_loop' = "none"
    /\ loop' = "closed"
    /\ run_pc' = "done"
    /\ IF cleanup_error # ""
       THEN /\ run_error' = cleanup_error
            /\ run_result' = <<>>
       ELSE UNCHANGED <<run_result, run_error>>
    /\ UNCHANGED <<running_loop, main, main_task, tasks, cancelled, cleanup_error,
                   watcherVars>>
    /\ UNCHANGED <<loginVars, jobVars>>

\* ------------------------------------------------- ThreadedChildWatcher
\* the wait statuses of a child: exited with 1, killed by signal 9
Statuses == {256, 9}

WIFSIGNALED(status) == status % 128 # 0 /\ status % 128 # 127
WTERMSIG(status) == status % 128
WIFEXITED(status) == status % 128 = 0
WEXITSTATUS(status) == (status \div 256) % 256

\* a watcher that reports the wait status as it is
_compute_returncode_raw(status) == status

_compute_returncode(status) ==
    IF WIFSIGNALED(status) THEN -WTERMSIG(status)
    ELSE IF WIFEXITED(status) THEN WEXITSTATUS(status)
    ELSE status

\* the arguments a callback is registered with
CallbackArgs(pid) == <<"transport", pid>>

\* add_child_handler(pid, callback, *args), called by main on the running
\* loop: a waiter thread is started for pid and takes its place in the table
add_child_handler ==
    /\ run_pc = "running"
    /\ Len(waiters) < MaxWaiters
    /\ \E pid \in Pids :
         /\ waiters' = Append(waiters, [pid |-> pid, args |-> CallbackArgs(pid),
                                        state |-> "waiting", reaped |-> "",
                                        status |-> 0, returncode |-> 0])
         /\ threads' = [threads EXCEPT ![pid] = <<Len(waiters) + 1>>]
    /\ handed' = Append(handed, <<>>)
    /\ UNCHANGED <<run_pc, running_loop, main, loop, current_loop, main_task, tasks,
                   cancelled, run_result, run_error, cleanup_error, direct>>
    /\ UNCHANGED <<loginVars, jobVars>>

\* os.waitpid(expected_pid, 0) returns the status of the child, or fails with
\* ChildProcessError when the child was reaped elsewhere (returncode 255);
\* then `if loop.is_closed(): logger.warning(...)`
do_waitpid_waits(i) ==
    /\ waiters[i].state = "waiting"
    /\ IF loop = "closed"
       THEN waiters' = [waiters EXCEPT ![i].state = "warned"]
       ELSE \/ \E status \in Statuses :
                 waiters' = [waiters EXCEPT ![i].state = "scheduling",
                                            ![i].reaped = "here",
                                            ![i].status = status,
                                            ![i].returncode = _compute_returncode(status)]
            \/ waiters' = [waiters EXCEPT ![i].state = "scheduling",
                                          ![i].reaped = "elsewhere",
                                          ![i].returncode = 255]
    /\ UNCHANGED <<run_pc, running_loop, main, loop, current_loop, main_task, tasks,
                   cancelled, run_result, run_error, cleanup_error, threads,
                   handed, direct>>
    /\ UNCHANGED <<loginVars, jobVars>>

\* a waiter that calls the callback itself
handoff_direct(i) ==
    /\ direct' = direct \cup {i}
    /\ waiters' = [waiters EXCEPT ![i].state = "scheduled", ![i].returncode = 0]
    /\ UNCHANGED handed

\* `loop.call_soon_threadsafe(callback, pid, returncode, *args)`: the call is
\* queued on the loop; a loop closed since the check raises RuntimeError in
\* the waiter thread, which ends there
handoff(i) ==
    /\ direct' = direct
    /\ IF loop = "closed"
       THEN /\ waiters' = [waiters EXCEPT ![i].state = "crashed", ![i].returncode = 0]
            /\ handed' = handed
       ELSE /\ waiters' = [waiters EXCEPT ![i].state = "scheduled", ![i].returncode = 0]
            /\ handed' = [handed EXCEPT ![i] =
                            Append(@, <<waiters[i].pid, waiters[i].returncode>>
                                         \o waiters[i].args)]

do_waitpid_schedules(i) ==
    /\ waiters[i].state = "scheduling"
    /\ handoff(i)
    /\ UNCHANGED <<run_pc, running_loop, main, loop, current_loop, main_task, tasks,
                   cancelled, run_result, run_error, cleanup_error, threads>>
    /\ UNCHANGED <<loginVars, jobVars>>

\* `self._threads.pop(expected_pid)`: KeyError when the entry is gone
do_waitpid_pops(i) ==
    /\ waiters[i].state \in {"scheduled", "warned"}
    /\ IF threads[waiters[i].pid] # <<>>
       THEN /\ threads' = [threads EXCEPT ![waiters[i].pid] = <<>>]
            /\ waiters' = [waiters EXCEPT ![i].state = "finished"]
       ELSE /\ threads' = threads
            /\ waiters' = [waiters EXCEPT ![i].state = "crashed"]
    /\ UNCHANGED <<run_pc, running_loop, main, loop, current_loop, main_task, tasks,
                   cancelled, run_result, run_error, cleanup_error, handed,
                   direct>>
    /\ UNCHANGED <<loginVars, jobVars>>

AsyncioInit == JobsInit

AsyncioNext ==
    \/ run_called
    \/ run_checks_loop
    \/ run_checks_coroutine
    \/ run_new_event_loop
    \/ run_set_event_loop
    \/ run_until_complete_starts
    \/ main_creates_task
    \/ main_completes
    \/ cancel_all_tasks
    \/ run_shutdown_asyncgens
    \/ run_finally
    \/ add_child_handler
    \/ \E i \in 1..Len(waiters) : do_waitpid_waits(i)
    \/ \E i \in 1..Len(waiters) : do_waitpid_schedules(i)
    \/ \E i \in 1..Len(waiters) : do_waitpid_pops(i)

AsyncioSpec == AsyncioInit /\ [][AsyncioNext]_vars

\* ======================================================================
\* cli/job.py: the commands `neuro job list` and `neuro job kill`
\* ======================================================================
\* the ids given on the command line
JobNames == {"job-1", "job-2"}

\* the values click.Choice admits for --status
StatusChoices == {"pending", "running", "succeeded", "failed", "all"}

\* what the command line can give for an argument or option taking several
\* values from S
Given(S) == UNION {[1..n -> S] : n \in 0..MaxIds}

\* set(xs)
set(xs) == {xs[i] : i \in DOMAIN xs}

\* one entry of cli_log
Event(ev, job, raises, text) ==
    [ev |-> ev, job |-> job, raises |-> raises, text |-> text]

\* how `await client.jobs.kill(job)` can end: it returns, it raises a
\* ValueError, it raises any other exception
KillOutcomes ==
    {[raises |-> "", reason |-> ""],
     [raises |-> "ValueError", reason |-> "not found"],
     [raises |-> "Exception", reason |-> "server error"]}

\* the command is over, the process is ready for the next one
cli_exit ==
    /\ cli_pc \in {"done", "raised"}
    /\ cli_cmd' = ""
    /\ cli_pc' = "idle"
    /\ cli_args' = <<>>
    /\ cli_idx' = 1
    /\ cli_errors' = <<>>
    /\ cli_log' = <<>>
    /\ cli_statuses' = {}
    /\ UNCHANGED <<job_op, job_pc, job_status, script, written, closed, wire,
                   yielded, echoed, job_error, conn, apiVars>>
    /\ UNCHANGED <<loginVars, asyncVars>>

\* ------------------------------------------------------------ job list
\* status = status or ["running", "pending"]
status_or_default(status) ==
    IF status = <<>> THEN <<"running", "pending">> ELSE status

cli_list_statuses_without_all(status) ==
    set(status_or_default(status)) \ {"all"}

\* statuses = set(status); if "all" in statuses: statuses = set()
cli_list_statuses(status) ==
    IF "all" \in set(status_or_default(status))
    THEN {}
    ELSE set(status_or_default(status))

\* `neuro job list` up to `await client.jobs.list()`
cli_list_called ==
    /\ cli_pc = "idle"
    /\ \E status \in Given(StatusChoices) :
         /\ cli_args' = status
         /\ cli_statuses' = cli_list_statuses(status)
    /\ cli_cmd' = "list"
    /\ cli_pc' = "client"
    /\ UNCHANGED <<cli_idx, cli_errors, cli_log>>
    /\ UNCHANGED <<job_op, job_pc, job_status, script, written, closed, wire,
                   yielded, echoed, job_error, conn, apiVars>>
    /\ UNCHANGED <<loginVars, asyncVars>>

\* client.jobs.list() returns and the jobs are formatted with `statuses`,
\* or it raises
cli_list_returns ==
    /\ cli_cmd = "list"
    /\ cli_pc = "client"
    /\ \/ /\ cli_pc' = "done"
          /\ cli_log' = Append(cli_log, Event("echo", "", "", <<"format_jobs">>))
       \/ /\ cli_pc' = "raised"
          /\ UNCHANGED cli_log
    /\ UNCHANGED <<cli_cmd, cli_args, cli_idx, cli_errors, cli_statuses>>
    /\ UNCHANGED <<job_op, job_pc, job_status, script, written, closed, wire,
                   yielded, echoed, job_error, conn, apiVars>>
    /\ UNCHANGED <<loginVars, asyncVars>>

\* ------------------------------------------------------------ job kill
\* f"Cannot kill job {job}: {reason}"
format_fail(job, reason) == <<"Cannot kill job ", job, ": ", reason>>

errors_append_first(errors, job, e) == <<<<job, e>>>> \o errors

\* errors.append((job, e))
errors_append(errors, job, e) == Append(errors, <<job, e>>)

\* `neuro job kill ID...`: nargs=-1, required=True
cli_kill_called ==
    /\ cli_pc = "idle"
    /\ \E id \in Given(JobNames) \ {<<>>} : cli_args' = id
    /\ cli_cmd' = "kill"
    /\ cli_pc' = "client"
    /\ cli_idx' = 1
    /\ cli_errors' = <<>>
    /\ cli_log' = <<>>
    /\ UNCHANGED cli_statuses
    /\ UNCHANGED <<job_op, job_pc, job_status, script, written, closed, wire,
                   yielded, echoed, job_error, conn, apiVars>>
    /\ UNCHANGED <<loginVars, asyncVars>>

\* one turn of `for job in id`: await client.jobs.kill(job), then print(job),
\* or errors.append on a ValueError; any other exception leaves the loop, the
\* `async with` and the command
cli_kill_next ==
    /\ cli_cmd = "kill"
    /\ cli_pc = "client"
    /\ cli_idx <= Len(cli_args)
    /\ LET job == cli_args[cli_idx] IN
       \E outcome \in KillOutcomes :
         LET call == Event("kill", job, outcome.raises, <<>>) IN
         IF outcome.raises = ""
         THEN /\ cli_log' = cli_log \o <<call, Event("print", job, "", <<job>>)>>
              /\ cli_idx' = cli_idx + 1
              /\ UNCHANGED <<cli_errors, cli_pc>>
         ELSE IF outcome.raises = "ValueError"
         THEN /\ cli_log' = Append(cli_log, call)
              /\ cli_errors' = errors_append(cli_errors, job, outcome.reason)
              /\ cli_idx' = cli_idx + 1
              /\ UNCHANGED cli_pc
         ELSE /\ cli_log' = Append(cli_log, call)
              /\ cli_pc' = "raised"
              /\ UNCHANGED <<cli_errors, cli_idx>>
    /\ UNCHANGED <<cli_cmd, cli_args, cli_statuses>>
    /\ UNCHANGED <<job_op, job_pc, job_status, script, written, closed, wire,
                   yielded, echoed, job_error, conn, apiVars>>
    /\ UNCHANGED <<loginVars, asyncVars>>

\* the loop is over: `for job, error in errors: click.echo(format_fail(...))`
cli_kill_reports ==
    /\ cli_cmd = "kill"
    /\ cli_pc = "client"
    /\ cli_idx > Len(cli_args)
    /\ cli_log' = cli_log \o
           [i \in 1..Len(cli_errors) |->
               Event("echo", cli_errors[i][1], "",
                     format_fail(cli_errors[i][1], cli_errors[i][2]))]
    /\ cli_pc' = "done"
    /\ UNCHANGED <<cli_cmd, cli_args, cli_idx, cli_errors, cli_statuses>>
    /\ UNCHANGED <<job_op, job_pc, job_status, script, written, closed, wire,
                   yielded, echoed, job_error, conn, apiVars>>
    /\ UNCHANGED <<loginVars, asyncVars>>

CliInit == JobsInit

CliNext ==
    \/ cli_list_called
    \/ cli_list_returns
    \/ cli_kill_called
    \/ cli_kill_next
    \/ cli_kill_reports
    \/ cli_exit

CliSpec == CliInit /\ [][CliNext]_vars

\* ======================================================================
\* Properties
\* ======================================================================
Has(seq, e) == \E i \in DOMAIN seq : seq[i] = e

\* the port index where the site of the current call listens, 0 when none
Bound == IF \E p \in PortIdxs : server[p] = calls
         THEN CHOOSE p \in PortIdxs : server[p] = calls
         ELSE 0

\* C1: a call of refresh_token with a present token that is not expired when
\* the call is entered returns that very token and has performed no I/O at
\* all (no bind attempt, no authorize request, no POST), in every call the
\* caller makes, however many came before.
C1_UnexpiredPassThrough ==
    (pc = "done" /\ argToken # <<>> /\ argToken[1].expiration_time > callTime)
        => /\ result.ok
           /\ result.token = argToken
           /\ trace = <<>>
           /\ tried = <<>>
           /\ \A p \in PortIdxs : server[p] # calls

\* C1 witness: the second call in a row passed an unexpired token through
C1_Witness ==
    /\ pc = "done"
    /\ calls = 2
    /\ argToken # <<>>
    /\ argToken[1].expiration_time > callTime
    /\ result.token = argToken

\* C2: a call of refresh_token with a present token that is expired when the
\* call is entered (expiration_time <= now) sends the refresh POST and nothing
\* else: no AuthCode is created, no port is tried, no authorize request is
\* dispatched and no code exchange is sent.
C2_ExpiredRefreshesOnly ==
    (argToken # <<>> /\ argToken[1].expiration_time <= callTime)
        => /\ trace = <<"post_refresh">>
           /\ tried = <<>>
           /\ future[calls].state = "none"
           /\ callback_url[calls] = <<>>
           /\ \A p \in PortIdxs : server[p] # calls
           /\ pc \in {"refreshing", "done"}

\* C2 witness: an expired token was refreshed and the call returned a new token
C2_Witness ==
    /\ pc = "done"
    /\ argToken # <<>>
    /\ argToken[1].expiration_time = callTime
    /\ result.ok
    /\ result.token # argToken
    /\ trace = <<"post_refresh">>

\* C3: in a call of refresh_token without a token, the site is bound and
\* callback_url assigned before the authorize request is dispatched, the
\* request is dispatched before the code is awaited, and the exchange POST is
\* sent only after the wait, with the waiter fulfilled; no refresh is sent.
C3_InteractiveOrder ==
    /\ \A i \in DOMAIN trace :
         /\ trace[i] = "dispatch" =>
              \E j \in 1..(i - 1) : /\ trace[j] = "callback_url"
                                   /\ \E k \in 1..(j - 1) : trace[k] = "bind"
         /\ trace[i] = "await_code" => \E j \in 1..(i - 1) : trace[j] = "dispatch"
         /\ trace[i] = "post_exchange" =>
              /\ \E j \in 1..(i - 1) : trace[j] = "await_code"
              /\ future[calls].state = "fulfilled"
    /\ pc = "dispatching" =>
         /\ Bound # 0
         /\ callback_url[calls] = <<callback_ports[Bound]>>
    /\ (pc # "idle" /\ argToken = <<>>) => ~Has(trace, "post_refresh")

\* C3 witness: the whole interactive flow ran and ended with a token
C3_Witness ==
    /\ pc = "done"
    /\ result.ok
    /\ trace = <<"bind", "callback_url", "dispatch", "await_code", "post_exchange">>

\* C4: while the body of get_code runs under create_app_server, the site
\* listens on exactly the first port of the list that was not in use: every
\* earlier port was tried, in list order, and found in use, and the URL
\* reports the port bound.
C4_FirstFreePort ==
    (pc \in {"dispatching", "waiting", "teardown"})
        => /\ Bound # 0
           /\ \A p \in PortIdxs : server[p] = calls => p = Bound
           /\ Len(tried) = Bound
           /\ \A i \in 1..Bound : tried[i].port = i
           /\ \A i \in 1..(Bound - 1) : tried[i].outcome = "OSError:EADDRINUSE"
           /\ tried[Bound].outcome = "bound"
           /\ callback_url[calls] = <<callback_ports[Bound]>>

\* C4 witness: ports [P1 busy, P2 free]: the site listens on P2
C4_Witness ==
    /\ pc = "dispatching"
    /\ tried = <<[port |-> 1, outcome |-> "OSError:EADDRINUSE"],
                 [port |-> 2, outcome |-> "bound"]>>
    /\ server[2] = calls
    /\ callback_url[calls] = <<BasePort + 1>>

\* C5: a create_app_server that found every port it tried in use has tried
\* every candidate port once, in list order, and ends with the "No free
\* ports." error; it yielded no URL and left no site or runner behind.
C5_NoFreePorts ==
    (/\ pc = "done"
     /\ tried # <<>>
     /\ \A i \in DOMAIN tried : tried[i].outcome = "OSError:EADDRINUSE")
        => /\ ~result.ok
           /\ result.error = NoFreePorts
           /\ Len(tried) = NumPorts
           /\ \A i \in PortIdxs : tried[i].port = i
           /\ callback_url[calls] = <<>>
           /\ trace = <<>>
           /\ \A p \in PortIdxs : server[p] # calls
           /\ runners[calls] = 0

\* C5 witness: every port was in use and the call failed with No free ports
C5_Witness ==
    /\ pc = "done"
    /\ Len(tried) = NumPorts
    /\ \A i \in PortIdxs : tried[i] = [port |-> i, outcome |-> "OSError:EADDRINUSE"]
    /\ result.error = NoFreePorts

\* C6: when a call of refresh_token has ended, on whatever path, the site it
\* bound is shut down: no port is still bound by it and every runner it set
\* up has been cleaned up.
C6_ServerShutDownOnExit ==
    pc = "done" => /\ \A p \in PortIdxs : server[p] # calls
                   /\ runners[calls] = 0

\* the status of a successful callback response under the configuration
SuccessStatus == IF redirect_url = <<>> THEN 200 ELSE 302

\* C7 as stated: every callback request whose query carries a `code` parameter
\* resolves the waiter with exactly that value and is answered 200, or with
\* the redirect when a success URL is configured.
C7_AnyCodeResolves ==
    [][\A p \in PortIdxs, q \in Queries :
         (q # <<>> /\ handle_at(p, q))
            => /\ future'[server[p]] = [state |-> "fulfilled", value |-> q[1]]
               /\ response' = SuccessStatus]_vars

\* C7 amended: a callback request with a non-empty `code`, served while the
\* waiter is pending, resolves the waiter with exactly that value and is
\* answered 200, or with the redirect when a success URL is configured; served
\* when the waiter is already fulfilled or cancelled it leaves the waiter as it
\* was and fails (status 500). A success response is only ever produced with
\* the waiter resolved.
C7_PendingCodeResolves ==
    [][\A p \in PortIdxs, q \in Queries :
         (q # <<>> /\ q[1] # "" /\ handle_at(p, q))
            => /\ future[server[p]].state = "pending"
                    => /\ future'[server[p]] = [state |-> "fulfilled", value |-> q[1]]
                       /\ response' = SuccessStatus
               /\ future[server[p]].state # "pending"
                    => /\ future'[server[p]] = future[server[p]]
                       /\ response' = 500
               /\ response' \in {200, 302} => future'[server[p]].state = "fulfilled"]_vars

\* C7 witness: the awaited code arrived and was answered with the redirect
C7_Witness ==
    /\ pc = "waiting"
    /\ redirect_url # <<>>
    /\ response = 302
    /\ future[calls] = [state |-> "fulfilled", value |-> "c1"]

\* C8: a callback request without a `code` parameter is answered 400, cancels
\* the waiter when it is pending and never stores a value in it; a wait on the
\* waiter so cancelled fails instead of returning.
C8_MissingCodeCancels ==
    [][/\ \A p \in PortIdxs :
            handle_at(p, <<>>)
               => /\ response' = 400
                  /\ future[server[p]].state = "pending"
                       => future'[server[p]] = [state |-> "cancelled", value |-> ""]
                  /\ future[server[p]].state # "pending"
                       => future'[server[p]] = future[server[p]]
       /\ (pc = "waiting" /\ future[calls].state = "cancelled" /\ pc' # "waiting")
            => /\ pc' = "teardown"
               /\ exiting' = AuthError]_vars

\* C8 witness: the wait is pending on a waiter that a 400 request has cancelled
C8_Witness ==
    /\ pc = "waiting"
    /\ response = 400
    /\ future[calls].state = "cancelled"

\* AuthCodeCallbackClient.request's wait has ended and the body is being left
WaitEnded == pc = "teardown" /\ Has(trace, "await_code")

C10_SetOnce ==
    [][\A c \in Calls :
         /\ future[c].state = "fulfilled" => future'[c] \in {future[c], NoFuture}
         /\ future[c].state = "cancelled" => future'[c] \in {future[c], NoFuture}]_vars

\* C10 witness: a request tried to set a waiter that already had its outcome
\* and was refused, the value c1 still in place
C10_Witness ==
    /\ response = 500
    /\ \E c \in Calls : future[c] = [state |-> "fulfilled", value |-> "c1"]

\* a token endpoint response has arrived in the current call
Responded == pc = "done" /\ token_response # <<>>

\* the call has ended with a token made from the response's payload
Created == Responded /\ result.ok

\* C11 as stated: a token created at time T0 from expires_in E expires at
\* exactly T0 + 0.75 * E, never later than T0 + E, and is_expired is false
\* strictly before that time and true from it on.
C11_ExactMargin ==
    Created =>
        LET E == token_response[1].payload[1].expires_in
            tok == result.token[1]
        IN /\ RatioDen * (tok.expiration_time - now) = RatioNum * E
           /\ tok.expiration_time <= now + E
           /\ \A t \in 0..(now + E + 1) :
                is_expired(tok, t) <=> t >= tok.expiration_time

\* C11 amended: a token created at time T0 (in whole seconds) from expires_in
\* E >= 0 expires at T0 + floor(0.75 * E): 0.75 * E rounded down to a whole
\* second, which equals T0 + 0.75 * E when E is a multiple of 4 (E = 100 gives
\* T0 + 75) and is never later than T0 + E; is_expired is false at every time
\* strictly before expiration_time and true at it and at every later time.
C11_TruncatedMargin ==
    Created =>
        LET E == token_response[1].payload[1].expires_in
            tok == result.token[1]
        IN /\ RatioDen * (tok.expiration_time - now) <= RatioNum * E
           /\ RatioNum * E < RatioDen * (tok.expiration_time - now + 1)
           /\ (E = 100 => tok.expiration_time = now + 75)
           /\ tok.expiration_time <= now + E
           /\ \A t \in 0..(now + E + 1) :
                is_expired(tok, t) <=> t >= tok.expiration_time

\* C11 witness: a token created at T0 = 1 from expires_in 2 expires at T0 + 1
C11_Witness ==
    /\ Created
    /\ now = 1
    /\ token_response[1].payload[1].expires_in = 2
    /\ result.token[1].expiration_time = 2

\* C12: a refresh that succeeds returns a token that keeps the input token's
\* refresh_token when the response omits one and carries the response's
\* refresh_token when it supplies one; the input token is left as it was.
C12_RefreshTokenFromResponse ==
    (Created /\ argToken # <<>>) =>
        LET r == token_response[1].payload[1]
        IN /\ result.token[1].refresh_token =
                 (IF r.refresh_token = <<>> THEN argToken[1].refresh_token
                  ELSE r.refresh_token[1])
           /\ argToken = curToken

C14_PkcePairFixed ==
    /\ authorize_query # <<>>
          => /\ verifier # <<>>
             /\ authorize_query[1].code_challenge =
                   urlsafe_unpadded_b64encode(sha256(encode(verifier[1])))
             /\ authorize_query[1].code_challenge_method = "S256"
    /\ (token_request # <<>> /\ token_request[1].grant_type = "authorization_code")
          => /\ authorize_query # <<>>
             /\ token_request[1].code_verifier = verifier[1]
             /\ authorize_query[1].code_challenge =
                   urlsafe_unpadded_b64encode(
                       sha256(encode(token_request[1].code_verifier)))
    /\ verifier # <<>> => \E s \in Secrets : verifier[1] = generate_verifier(s)

\* C14 witness: the exchange was sent with the verifier made from secret s2
C14_Witness ==
    /\ pc = "exchanging"
    /\ token_request[1].code_verifier = <<"b64url", "s2">>
    /\ authorize_query[1].code_challenge = <<"b64url", "sha256", "bytes", "b64url", "s2">>

\* the outcome of the port tried last
LastTried == tried[Len(tried)].outcome

\* C15: a failure inside refresh_token(None) ends the call and is the error
\* the caller gets: a failure of the body of get_code (dispatcher, code
\* waiter), a bind failure (No free ports when the ports are used up), a
\* failure of the token exchange.
C15_FailuresReachCaller ==
    [][/\ (pc = "teardown" /\ exiting # "return" /\ pc' # "teardown")
             => /\ pc' = "done"
                /\ result'.error = exiting
       /\ (pc = "bind" /\ ~thrown /\ pc' = "done")
             => result'.error = (IF LastTried' = "OSError:EADDRINUSE"
                                 THEN NoFreePorts ELSE LastTried')
       /\ (pc = "exchanging" /\ pc' = "done" /\ raise_for_status(token_response'[1].status))
             => result'.error = TokenError]_vars

Count(seq, e) == Cardinality({i \in DOMAIN seq : seq[i] = e})

\* C16: one call of refresh_token sends at most one POST to the token endpoint
\* and dispatches at most one authorize request; once the POST is answered the
\* call is over, and after a failure of the body of get_code nothing is
\* dispatched, awaited or posted again.
C16_NoRetry ==
    /\ Count(trace, "post_exchange") + Count(trace, "post_refresh") <= 1
    /\ Count(trace, "dispatch") <= 1
    /\ Count(trace, "await_code") <= 1
    /\ token_response # <<>> => pc = "done"
    /\ thrown => pc \in {"bind", "done"}

\* C16 witness: the exchange POST failed and the call ended with the error,
\* one POST and one authorize request sent
C16_Witness ==
    /\ pc = "done"
    /\ ~result.ok
    /\ token_response # <<>>
    /\ Count(trace, "post_exchange") = 1
    /\ Count(trace, "dispatch") = 1

\* a monitor stream the server answered with 200, its consumer not cancelled
Monitoring == job_op = "monitor" /\ job_status = 200 /\ job_pc # "cancelled"

\* C17: monitor(id) on a server that streams N chunks and ends: at every
\* moment what was yielded, in order, followed by what is in flight is the
\* concatenation of the chunks written so far (nothing lost, duplicated or
\* reordered); the sequence ends only after the server ended the stream, with
\* all of the N chunks yielded, and without an error.
C17_MonitorYieldsAll ==
    Monitoring =>
        /\ Flatten(yielded) \o wire = Flatten(SubSeq(script, 1, written))
        /\ job_error = ""
        /\ job_pc \in {"streaming", "ended"}
        /\ job_pc = "ended" => /\ closed
                               /\ Flatten(yielded) = Flatten(script)

\* C17 witness: three chunks were streamed and the sequence ended, the data
\* yielded in pieces that are not the chunks written
C17_Witness ==
    /\ Monitoring
    /\ job_pc = "ended"
    /\ script = <<<<97>>, <<98, 255>>, <<97>>>>
    /\ yielded = <<<<97, 98>>, <<255, 97>>>>

\* C18: monitor(id) answered 404 fails with ResourceNotFound with nothing
\* yielded and nothing written out; a monitor that has failed has yielded
\* nothing before.
C18_MonitorNotFound ==
    /\ (job_op = "monitor" /\ job_status = 404)
          => /\ job_pc = "failed"
             /\ job_error = ResourceNotFound
             /\ yielded = <<>>
             /\ echoed = <<>>
    /\ (job_op = "monitor" /\ job_pc = "failed")
          => /\ job_error = ResourceNotFound
             /\ yielded = <<>>

\* C18 witness: the request was answered 404 and the sequence failed
C18_Witness ==
    /\ job_op = "monitor"
    /\ job_status = 404
    /\ job_pc = "failed"
    /\ job_error = ResourceNotFound

\* a top stream whose handshake succeeded, on a server that sends N >= 1
\* frames, its consumer not cancelled
Topping == job_op = "top" /\ job_status = 101 /\ script # <<>> /\ job_pc # "cancelled"

\* C19: top(id) on a server that sends N >= 1 frames and closes: the i-th
\* value yielded is the JobTelemetry of the i-th frame sent (every key of the
\* frame, the gpu readings when present), no frame is skipped or repeated; the
\* sequence ends only after the socket closed, with exactly N values yielded,
\* and without an error.
C19_TopYieldsFrames ==
    Topping =>
        /\ Len(yielded) + Len(wire) = written
        /\ \A i \in DOMAIN yielded :
             yielded[i] = [cpu |-> script[i].cpu,
                           memory |-> script[i].memory,
                           timestamp |-> script[i].timestamp,
                           gpu_duty_cycle |-> Opt(script[i], "gpu_duty_cycle"),
                           gpu_memory |-> Opt(script[i], "gpu_memory")]
        /\ job_error = ""
        /\ job_pc \in {"streaming", "ended"}
        /\ job_pc = "ended" => /\ closed
                               /\ Len(yielded) = Len(script)

\* C19 witness: three frames were sent, with and without gpu readings, and
\* the sequence ended with three values
C19_Witness ==
    /\ Topping
    /\ job_pc = "ended"
    /\ Len(yielded) = 3
    /\ yielded[1].gpu_duty_cycle = <<>>
    /\ yielded[2].gpu_duty_cycle = <<50>>

\* C20: top(id) on a socket that closes with no frame sent fails with
\* ValueError("not running") and has yielded nothing; a top that failed with
\* "not running" has yielded nothing, on a socket that delivered nothing.
C20_TopNotRunning ==
    /\ (job_op = "top" /\ job_status = 101 /\ script = <<>>
          /\ job_pc \in {"ended", "failed"})
          => /\ job_pc = "failed"
             /\ job_error = JobNotRunning
             /\ yielded = <<>>
    /\ job_error = JobNotRunning
          => /\ job_op = "top"
             /\ closed
             /\ script = <<>>
             /\ yielded = <<>>

\* C20 witness: the socket closed with nothing sent and the sequence failed
C20_Witness ==
    /\ job_op = "top"
    /\ closed
    /\ written = 0
    /\ job_pc = "failed"
    /\ job_error = JobNotRunning

\* C21: top(id) whose connect request the server answers with status 400
\* fails with ValueError("not found") and has yielded nothing.
C21_TopNotFound ==
    (job_op = "top" /\ job_status = 400)
        => /\ job_pc = "failed"
           /\ job_error = JobNotFound
           /\ yielded = <<>>

\* C21 witness: the connect request was answered 400 and the sequence failed
C21_Witness ==
    /\ job_op = "top"
    /\ job_status = 400
    /\ job_pc = "failed"
    /\ job_error = JobNotFound

C22_KillOutcome ==
    job_op = "kill"
        => /\ api_request = <<Request("DELETE", <<"jobs", api_args[1]>>, {}, <<>>)>>
           /\ job_status = 204
                => /\ job_pc = "ended"
                   /\ job_error = ""
                   /\ api_result = <<>>
           /\ job_status = 404
                => /\ job_pc = "failed"
                   /\ job_error = ResourceNotFound
                   /\ api_result = <<>>

\* C22 witness: a kill the server answered 404 has failed
C22_Witness ==
    /\ job_op = "kill"
    /\ job_status = 404
    /\ job_pc = "failed"

\* the descriptor the tests expect for a job the server describes: the named
\* http url where there is one, else the unnamed one, else the empty url
ExpectedUrl(res) ==
    IF "http_url_named" \in DOMAIN res THEN URL(res.http_url_named)
    ELSE IF "http_url" \in DOMAIN res THEN URL(res.http_url)
    ELSE URL("")

Decoded(desc, res) ==
    /\ desc.id = res.id
    /\ JobStatus_value(desc.status) = res.status
    /\ desc.name = (IF "name" \in DOMAIN res THEN <<res.name>> ELSE <<>>)
    /\ desc.http_url = ExpectedUrl(res)

\* C23: status(id) issues a GET for the single job; answered 200 it returns
\* the descriptor decoded from the body, which is JobDescription.from_api of
\* the body; answered 404 it fails with ResourceNotFound and returns nothing.
C23_StatusDecodes ==
    job_op = "status"
        => /\ api_request = <<Request("GET", <<"jobs", api_args[1]>>, {}, <<>>)>>
           /\ job_status = 200
                => /\ job_pc = "ended"
                   /\ job_error = ""
                   /\ Len(api_result) = 1
                   /\ api_result[1] = JobDescription_from_api(api_body[1])
                   /\ Decoded(api_result[1], api_body[1])
           /\ job_status = 404
                => /\ job_pc = "failed"
                   /\ job_error = ResourceNotFound
                   /\ api_result = <<>>

\* C23 witness: the descriptor of a job with a named http url was returned
C23_Witness ==
    /\ job_op = "status"
    /\ job_status = 200
    /\ api_result # <<>>
    /\ "http_url_named" \in DOMAIN api_body[1]

\* the key of an optional argument is in a JSON object exactly when the
\* argument is set, and then with the argument's value
Sparse(json, key, arg) ==
    /\ (key \in DOMAIN json) <=> (arg # <<>>)
    /\ arg # <<>> => json[key] = arg[1]

\* C24: the body submit sends is sparse: `volumes` (of the container), `name`
\* and `description` are each present exactly when the argument is set, and no
\* key is there for an argument that is not.
C24_SubmitSparse ==
    job_op = "submit"
        => /\ api_request[1].method = "POST"
           /\ Len(api_request[1].json) = 1
           /\ Sparse(api_request[1].json[1].container, "volumes", api_args[1].volumes)
           /\ Sparse(api_request[1].json[1], "name", api_args[1].name)
           /\ Sparse(api_request[1].json[1], "description", api_args[1].description)
           /\ DOMAIN api_request[1].json[1]
                = {"container", "is_preemptible"}
                    \cup (IF api_args[1].name # <<>> THEN {"name"} ELSE {})
                    \cup (IF api_args[1].description # <<>> THEN {"description"} ELSE {})

\* C24 witness: a job submitted with a name and a description, without volumes
C24_Witness ==
    /\ job_op = "submit"
    /\ api_args[1].volumes = <<>>
    /\ api_args[1].name # <<>>
    /\ api_args[1].description # <<>>
    /\ "volumes" \notin DOMAIN api_request[1].json[1].container

\* C25: list(statuses, name) sends one `status` parameter per requested
\* status and a `name` parameter when a name is given, none of either when not
\* given, and returns one descriptor per element of the response's array, in
\* the server's order.
C25_ListFilters ==
    job_op = "list"
        => /\ api_request[1].method = "GET"
           /\ {q[2] : q \in {r \in api_request[1].query : r[1] = "status"}}
                = {JobStatus_value(status) : status \in api_args[1]}
           /\ {q[2] : q \in {r \in api_request[1].query : r[1] = "name"}}
                = {api_args[2][i] : i \in 1..Len(api_args[2])}
           /\ Cardinality(api_request[1].query)
                = Cardinality(api_args[1]) + Len(api_args[2])
           /\ Len(api_result[1]) = Len(api_body[1].jobs)
           /\ \A i \in 1..Len(api_result[1]) :
                Decoded(api_result[1][i], api_body[1].jobs[i])

\* C25 witness: a list filtered by two statuses and a name that returned
\* several jobs
C25_Witness ==
    /\ job_op = "list"
    /\ Cardinality(api_args[1]) = 2
    /\ api_args[2] # <<>>
    /\ Len(api_result[1]) >= 2
    /\ api_result[1][1].id # api_result[1][2].id

\* C30: create_app_server binds and yields at most once per use: no port is
\* tried after one was bound (whatever exception the body raises after the
\* yield), and the body's exception is what leaves the context manager, not
\* an error of a second yield or of the ports running out.
C30_YieldsOnce ==
    /\ \A i \in 1..Len(tried) : tried[i].outcome = "bound" => i = Len(tried)
    /\ (pc = "done" /\ \E i \in 1..Len(tried) : tried[i].outcome = "bound")
          => result.error \notin {DidNotStop, NoFreePorts}

\* the coroutine run was given has returned or raised
Completed == main.kind \in {"returns", "raises"}

\* what the coroutine returned or raised is what run returned or raised
OutcomeOfMain ==
    /\ main.kind = "returns" => (run_result = <<main.value>> /\ run_error = "")
    /\ main.kind = "raises" => (run_result = <<>> /\ run_error = main.value)

\* C27 as stated: when run has ended and its coroutine returned or raised, the
\* loop it created is closed, the thread has no current loop, and run
\* returned the coroutine's result or raised its exception.
C27_OutcomeAlwaysOfMain ==
    (run_pc = "done" /\ Completed)
        => /\ loop = "closed"
           /\ current_loop = "none"
           /\ OutcomeOfMain

\* C27: run given a coroutine creates a new loop for it and, when it has
\* ended, that loop is closed and the thread has no current loop; run returned
\* the coroutine's result or raised its exception unless the cleanup
\* (cancelling the tasks left, shutting down the async generators) raised, and
\* then run raised the exception of the cleanup.
C27_LoopClosedOutcomeOrCleanupError ==
    /\ (main.kind # "not_coroutine"
          /\ run_pc \in {"set_loop", "start", "running", "cleanup", "asyncgens",
                         "finally"})
          => loop = "open"
    /\ (run_pc = "done" /\ main.kind # "not_coroutine")
          => /\ loop = "closed"
             /\ current_loop = "none"
             /\ cleanup_error = "" => (Completed /\ OutcomeOfMain)
             /\ cleanup_error # "" => (run_result = <<>> /\ run_error = cleanup_error)

\* C27 witness: run has ended after its coroutine returned, with its result
C27_Witness ==
    /\ run_pc = "done"
    /\ main.kind = "returns"
    /\ run_result = <<"v1">>
    /\ loop = "closed"
    /\ current_loop = "none"

\* C28: run called while another loop is running in the thread is rejected
\* with RuntimeError("asyncio.run() cannot be called from a running event
\* loop") before a new loop is created or installed as the current loop.
C28_RunningLoopRejected ==
    running_loop = "outer"
        => /\ run_pc \in {"check", "done"}
           /\ loop = "none"
           /\ current_loop = "outer"
           /\ run_pc = "done" => run_error = CalledFromRunningLoop

\* C29: a waiter thread hands the completion of its child to the loop through
\* call_soon_threadsafe only: each waiter schedules its callback at most once,
\* with (pid, returncode, *args), no waiter invokes the callback itself, and a
\* waiter that found the loop closed has scheduled nothing.
C29_ThreadSafeHandoff ==
    /\ direct = {}
    /\ \A i \in 1..Len(waiters) :
         /\ Len(handed[i]) <= 1
         /\ handed[i] # <<>>
              => /\ handed[i][1][1] = waiters[i].pid
                 /\ handed[i][1][2] \in {1, -9, 255}
                 /\ SubSeq(handed[i][1], 3, Len(handed[i][1])) = waiters[i].args
                 /\ waiters[i].state \in {"scheduled", "finished", "crashed"}
         /\ waiters[i].state \in {"waiting", "scheduling", "warned"}
              => handed[i] = <<>>

\* C29 witness: one waiter has scheduled its callback for a killed child,
\* another found the loop closed
C29_Witness ==
    \E i, j \in 1..Len(waiters) :
        /\ handed[i] = <<<<waiters[i].pid, -9>> \o waiters[i].args>>
        /\ waiters[j].state = "warned"

\* C31: a bind failure that is an OSError other than address-in-use ends
\* create_app_server at once: it is the last port tried, it is the error the
\* call ends with, and the call holds no runner and no bound port.
C31_OtherBindErrorRaised ==
    \A i \in 1..Len(tried) :
        tried[i].outcome = "OSError:EACCES"
            => /\ i = Len(tried)
               /\ pc = "done"
               /\ result.error = "OSError:EACCES"
               /\ runners[calls] = 0
               /\ \A p \in PortIdxs : server[p] # calls

\* C31 witness: the first port failed with another OSError while a further
\* candidate port was left
C31_Witness ==
    /\ pc = "done"
    /\ Len(tried) = 1
    /\ tried[1].outcome = "OSError:EACCES"
    /\ tried[1].port < NumPorts
    /\ result.error = "OSError:EACCES"

\* the wait of the call in progress has timed out: the clock only passes
\* timeout_s seconds in a call through a timeout
TimedOut == pc # "idle" /\ now >= callTime + timeout_s

\* C32: a wait that times out leaves its AuthCode cancelled and fails; a
\* cancelled AuthCode stays cancelled, a callback request that carries a code
\* for it is refused and does not fulfil it, and a wait on it fails rather
\* than returning a value.
C32_TimeoutCancelsForGood ==
    [][/\ wait_timeout
            => /\ future'[calls].state = "cancelled"
               /\ exiting' = AuthError
               /\ TimedOut'
       /\ \A c \in Calls :
            future[c].state = "cancelled"
                => /\ future'[c] \in {future[c], NoFuture}
                   /\ wait_outcome(future'[c]) = AuthError
       /\ \A p \in PortIdxs, q \in Queries :
            (q \notin {<<>>, <<"">>} /\ server[p] # 0 /\ handle_at(p, q)
                /\ future[server[p]].state = "cancelled")
                => /\ future'[server[p]].state = "cancelled"
                   /\ response' = 500]_vars

\* C32 witness: after the wait timed out a callback request with a code
\* arrived and was refused, the AuthCode still cancelled
C32_Witness ==
    /\ TimedOut
    /\ pc = "teardown"
    /\ exiting = AuthError
    /\ future[calls].state = "cancelled"
    /\ response = 500

\* the attempts of the call in progress that bound their port
BoundAttempts == {i \in 1..Len(tried) : tried[i].outcome = "bound"}

\* C33: in one negotiation the redirect_uri of the authorize request is the
\* URL of the port the callback server bound and yielded, which is the
\* callback_url of the AuthCode; the token exchange sends the same
\* redirect_uri, in a negotiation that bound one port only, and its `code` is
\* the value the callback handler stored in the waiter.
C33_RedirectUriAndCodeAgree ==
    /\ authorize_query # <<>>
          => /\ BoundAttempts # {}
             /\ \E i \in BoundAttempts :
                  /\ \A j \in BoundAttempts : i <= j
                  /\ authorize_query[1].redirect_uri = callback_ports[tried[i].port]
             /\ callback_url[calls] = <<authorize_query[1].redirect_uri>>
    /\ (token_request # <<>> /\ token_request[1].grant_type = "authorization_code")
          => /\ authorize_query # <<>>
             /\ Cardinality(BoundAttempts) = 1
             /\ token_request[1].redirect_uri = authorize_query[1].redirect_uri
             /\ future[calls].state = "fulfilled"
             /\ token_request[1].code = future[calls].value

\* C33 witness: the exchange is sent after the second candidate port was
\* bound, the first being in use
C33_Witness ==
    /\ pc = "exchanging"
    /\ Len(tried) = 2
    /\ tried[2] = [port |-> 2, outcome |-> "bound"]
    /\ token_request[1].redirect_uri = callback_ports[2]
    /\ token_request[1].code = "c2"

\* C34: the session refresh_token opens for the token endpoint is open while
\* the call runs and closed when the call has ended, whether it returned the
\* unexpired token, a refreshed or exchanged one, or failed.
C34_SessionClosedOnExit ==
    /\ pc = "done" => session = "closed"
    /\ pc \notin {"idle", "done"} => session = "open"
    /\ pc = "idle" => session = "none"

\* C34 witness: a call has ended with the failure of the token exchange, its
\* session closed
C34_Witness ==
    /\ pc = "done"
    /\ ~result.ok
    /\ result.error = TokenError
    /\ Has(trace, "post_exchange")
    /\ session = "closed"

\* a waiter thread that has not ended
Alive(i) == waiters[i].state \in {"waiting", "scheduling", "scheduled", "warned"}

\* C35: the thread table of the watcher is consistent under every
\* interleaving: a pid with a waiter thread still running has its entry, no
\* waiter thread ends in an exception, and once every waiter thread has ended
\* the table is empty.
C35_ThreadTableConsistent ==
    /\ \A i \in 1..Len(waiters) :
         /\ Alive(i) => threads[waiters[i].pid] # <<>>
         /\ waiters[i].state # "crashed"
    /\ (\A i \in 1..Len(waiters) : ~Alive(i))
          => \A pid \in Pids : threads[pid] = <<>>

\* the returncode the watcher is to report for waiter i: 255 for a child
\* reaped elsewhere, minus the signal number for a child killed by a signal
\* (wait status n), the exit status for a child that exited (wait status 256 n)
Reported(i, rc) ==
    IF waiters[i].reaped = "elsewhere" THEN rc = 255
    ELSE \/ \E n \in 1..126 : waiters[i].status = n /\ rc = -n
         \/ \E n \in 0..255 : waiters[i].status = 256 * n /\ rc = n

\* C36: the returncode a waiter holds after waitpid, and the one it schedules
\* the callback with on the open loop together with the expected pid, is 255
\* when the child was reaped elsewhere, minus the signal number for a
\* signalled child, the exit status for an exited child.
C36_ReturncodeReported ==
    \A i \in 1..Len(waiters) :
        /\ waiters[i].state = "scheduling" => Reported(i, waiters[i].returncode)
        /\ handed[i] # <<>>
             => /\ handed[i][1][1] = waiters[i].pid
                /\ Reported(i, handed[i][1][2])

\* C36 witness: the callbacks of a child reaped elsewhere and of a child
\* killed by signal 9 have been scheduled
C36_Witness ==
    \E i, j \in 1..Len(waiters) :
        /\ waiters[i].reaped = "elsewhere"
        /\ handed[i] = <<<<waiters[i].pid, 255>> \o waiters[i].args>>
        /\ waiters[j].reaped = "here"
        /\ waiters[j].status = 9
        /\ handed[j] = <<<<waiters[j].pid, -9>> \o waiters[j].args>>

Kills == SelectSeq(cli_log, LAMBDA e : e.ev = "kill")

\* the lines the command wrote with click.echo, in order
Echoes == SelectSeq(cli_log, LAMBDA e : e.ev = "echo")

\* the failure lines of the calls in K that raised a ValueError, in order
FailLines(K) ==
    LET F == SelectSeq(K, LAMBDA e : e.raises = "ValueError") IN
    [i \in 1..Len(F) |-> format_fail(F[i].job, "not found")]

\* each id killed is printed right after its call returned, and nothing else
\* is printed that way
PrintedOnReturn ==
    \A i \in DOMAIN cli_log :
       /\ (cli_log[i].ev = "kill" /\ cli_log[i].raises = "")
            => /\ i < Len(cli_log)
               /\ cli_log[i + 1] = Event("print", cli_log[i].job, "", <<cli_log[i].job>>)
       /\ cli_log[i].ev = "print"
            => /\ i > 1
               /\ cli_log[i - 1] = Event("kill", cli_log[i].job, "", <<>>)

\* C38 as stated: when `neuro job kill` is over, kill was attempted exactly
\* once for every id given, in the order given, each id killed was printed
\* when its kill returned, and one failure line per failed id was printed
\* after all attempts, in the order of the failures.
C38_KillAttemptsEveryId ==
    (cli_cmd = "kill" /\ cli_pc \in {"done", "raised"})
        => /\ [i \in 1..Len(Kills) |-> Kills[i].job] = cli_args
           /\ PrintedOnReturn
           /\ [i \in 1..Len(Echoes) |-> Echoes[i].text] = FailLines(Kills)
           /\ \A i \in DOMAIN cli_log : \A j \in DOMAIN cli_log :
                (cli_log[i].ev = "echo" /\ i < j) => cli_log[j].ev = "echo"

\* C38, amended: `neuro job kill` attempts kill once per id, in the order
\* given, up to and including the first id whose kill raises something other
\* than a ValueError; that exception ends the command at once, with no
\* further attempt and no failure line at all.  Each id killed is printed
\* right after its kill returned.  When no such exception occurs every id is
\* attempted, and the failure lines of the ids that raised ValueError are
\* printed after all attempts, one per failed id, in the order of the failures.
C38_KillAttemptsUntilOtherException ==
    cli_cmd = "kill"
        => /\ Len(Kills) <= Len(cli_args)
           /\ \A i \in 1..Len(Kills) : Kills[i].job = cli_args[i]
           /\ \A i \in 1..(Len(Kills) - 1) : Kills[i].raises \in {"", "ValueError"}
           /\ PrintedOnReturn
           /\ cli_pc = "raised"
                => /\ Len(Kills) >= 1
                   /\ Kills[Len(Kills)].raises \notin {"", "ValueError"}
                   /\ Echoes = <<>>
           /\ cli_pc = "client"
                => /\ Echoes = <<>>
                   /\ Len(Kills) = cli_idx - 1
                   /\ \A i \in 1..Len(Kills) : Kills[i].raises \in {"", "ValueError"}
           /\ cli_pc = "done"
                => /\ Len(Kills) = Len(cli_args)
                   /\ \A i \in 1..Len(Kills) : Kills[i].raises \in {"", "ValueError"}
                   /\ [i \in 1..Len(Echoes) |-> Echoes[i].text] = FailLines(Kills)
                   /\ \A i \in DOMAIN cli_log : \A j \in DOMAIN cli_log :
                        (cli_log[i].ev = "echo" /\ i < j) => cli_log[j].ev = "echo"

\* two different ids failed with a ValueError and the command reported both
C38_Witness ==
    /\ cli_cmd = "kill"
    /\ cli_pc = "done"
    /\ Len(cli_args) = 2
    /\ cli_args[1] # cli_args[2]
    /\ Len(Echoes) = 2

\* ------------------------------------------------------------------ C39
\* C39: the status filter of `neuro job list` is {running, pending} when no
\* --status is given, the set of the given statuses otherwise, and the empty
\* set whenever "all" is among them, whatever else is given with it.
C39_ListStatusFilter ==
    cli_cmd = "list"
        => cli_statuses =
             (IF cli_args = <<>> THEN {"running", "pending"}
              ELSE IF Has(cli_args, "all") THEN {}
              ELSE {cli_args[i] : i \in DOMAIN cli_args})

\* "all" was given together with another status
C39_Witness ==
    /\ cli_cmd = "list"
    /\ cli_pc = "done"
    /\ Has(cli_args, "all")
    /\ Has(cli_args, "failed")
    /\ cli_statuses = {}
====
